---- MODULE Spec2Model ----
(***************************************************************************)
(* Model of the resume screener: the upload handler, the Celery ingestion  *)
(* task process_resume_task, the delete and search routes, and the pure    *)
(* helpers they call.                                                      *)
(*                                                                         *)
(* A MongoDB document is a record whose DOMAIN is the set of keys it has:  *)
(* a key that was never $set is absent, which is what the Resume model     *)
(* reads back as None.  The collection and the Pinecone index are          *)
(* functions whose DOMAIN is the set of ids stored.  Text is a sequence of *)
(* one-character strings.                                                  *)
(***************************************************************************)
EXTENDS Integers, Sequences, FiniteSets, TLC

VARIABLES collection, pinecone_index, uploads, task, created, deleting, search, fb

vars == <<collection, pinecone_index, uploads, task, created, deleting, search, fb>>

(***************************************************************************)
(* Bounds                                                                  *)
(***************************************************************************)
MaxUploads == 2

(***************************************************************************)
(* Python values                                                           *)
(***************************************************************************)
PyNone == [type |-> "NoneType"]
PyStr(s) == [type |-> "str", value |-> s]

(***************************************************************************)
(* models/resume.py                                                        *)
(***************************************************************************)
PROCESSING == "processing"
PROCESSED == "processed"
FAILED == "failed"

ResumeStatus == {PROCESSING, PROCESSED, FAILED}

\* ResumeContent.contact_info is Dict[str, str]: every value must be a str.
ResumeContentValid(contact_info) ==
    \A k \in DOMAIN contact_info : contact_info[k].type = "str"

\* The Resume model reads a stored document: a missing optional key is None.
HasField(document, key) == key \in DOMAIN document


(***************************************************************************)
(* services/database.py                                                    *)
(***************************************************************************)
\* collection.update_one({"_id": id}, {"$set": update_data}): the keys of
\* update_data replace or extend those of the stored document.
update_one(coll, resume_id, update_data) ==
    [coll EXCEPT ![resume_id] = update_data @@ coll[resume_id]]

\* modified_count of that call: 1 when a stored document matched and changed.
modified_count(coll, resume_id, update_data) ==
    IF resume_id \in DOMAIN coll /\ update_one(coll, resume_id, update_data) # coll
    THEN 1 ELSE 0

\* ObjectId(resume_id) raises InvalidId unless resume_id is 24 hexadecimal
\* digits.  The well-formed ids are here the positive integers.
InvalidId(resume_id) == resume_id < 1

\* Variant: update_resume without the try around ObjectId(resume_id).
update_resume_unguarded(coll, resume_id, update_data, db_ok) ==
    IF ~db_ok \/ InvalidId(resume_id)
    THEN [raised |-> TRUE, ret |-> FALSE, coll |-> coll]
    ELSE IF modified_count(coll, resume_id, update_data) > 0
    THEN [raised |-> FALSE, ret |-> TRUE,
          coll |-> update_one(coll, resume_id, update_data)]
    ELSE [raised |-> FALSE, ret |-> FALSE, coll |-> coll]

\* Variant: the update creates the document when none is stored under the id.
update_resume_upserting(coll, resume_id, update_data, db_ok) ==
    IF ~db_ok
    THEN [raised |-> TRUE, ret |-> FALSE, coll |-> coll]
    ELSE [raised |-> FALSE, ret |-> TRUE,
          coll |-> IF resume_id \in DOMAIN coll
                   THEN update_one(coll, resume_id, update_data)
                   ELSE (resume_id :> update_data) @@ coll]

\* DatabaseService.update_resume.  db_ok is whether the awaited operations
\* of the call succeed: _ensure_connection (which connects when the service
\* is not connected) and then the round trip to MongoDB, if the call gets
\* that far.  When they do not, the call raises and the collection is as
\* before.  A malformed id returns False before the round trip.
update_resume(coll, resume_id, update_data, db_ok) ==
    IF ~db_ok
    THEN [raised |-> TRUE, ret |-> FALSE, coll |-> coll]
    ELSE IF InvalidId(resume_id)
    THEN [raised |-> FALSE, ret |-> FALSE, coll |-> coll]
    ELSE IF modified_count(coll, resume_id, update_data) > 0
    THEN [raised |-> FALSE, ret |-> TRUE,
          coll |-> update_one(coll, resume_id, update_data)]
    ELSE [raised |-> FALSE, ret |-> FALSE, coll |-> coll]

\* DatabaseService.update_resume_status(resume_id, status, **kwargs)
update_resume_status(coll, resume_id, status, kwargs, db_ok) ==
    update_resume(coll, resume_id, [status |-> status] @@ kwargs, db_ok)

\* DatabaseService.get_resume: the stored document, or None; db_ok as in
\* update_resume.
get_resume(coll, resume_id, db_ok) ==
    IF ~db_ok
    THEN [raised |-> TRUE, found |-> FALSE]
    ELSE IF InvalidId(resume_id)
    THEN [raised |-> FALSE, found |-> FALSE]
    ELSE IF resume_id \in DOMAIN coll
    THEN [raised |-> FALSE, found |-> TRUE, resume |-> coll[resume_id]]
    ELSE [raised |-> FALSE, found |-> FALSE]

\* DatabaseService.delete_resume
db_delete_resume(coll, resume_id, db_ok) ==
    IF ~db_ok
    THEN [raised |-> TRUE, ret |-> FALSE, coll |-> coll]
    ELSE IF InvalidId(resume_id)
    THEN [raised |-> FALSE, ret |-> FALSE, coll |-> coll]
    ELSE IF resume_id \in DOMAIN coll
    THEN [raised |-> FALSE, ret |-> TRUE,
          coll |-> [r \in DOMAIN coll \ {resume_id} |-> coll[r]]]
    ELSE [raised |-> FALSE, ret |-> FALSE, coll |-> coll]

(***************************************************************************)
(* services/vector_store.py                                                *)
(***************************************************************************)
\* Variant: one vector id for every document.
VectorId_shared(resume_id) == <<"resume_", 1>>

\* vector_id = f"resume_{resume_id}"
VectorId(resume_id) == <<"resume_", resume_id>>

\* Variant: add_vector without its try/except.
add_vector_uncaught(index, vector_id, embedding, metadata, pinecone_ok) ==
    IF pinecone_ok
    THEN [raised |-> FALSE, ret |-> TRUE,
          index |-> (vector_id :> [values |-> embedding, metadata |-> metadata])
                    @@ index,
          log |-> {"Added vector to Pinecone"}]
    ELSE [raised |-> TRUE, ret |-> FALSE, index |-> index, log |-> {}]

\* VectorStoreService.add_vector: upsert, True; any exception of the upsert
\* is caught and logged, False.  raised is whether the method itself raises.
add_vector(index, vector_id, embedding, metadata, pinecone_ok) ==
    IF pinecone_ok
    THEN [raised |-> FALSE, ret |-> TRUE,
          index |-> (vector_id :> [values |-> embedding, metadata |-> metadata])
                    @@ index,
          log |-> {"Added vector to Pinecone"}]
    ELSE [raised |-> FALSE, ret |-> FALSE, index |-> index,
          log |-> {"Failed to add to Pinecone"}]

\* VectorStoreService.delete_vector: delete, True; any exception of the
\* delete is caught and logged, False
delete_vector(index, vector_id, pinecone_ok) ==
    IF pinecone_ok
    THEN [raised |-> FALSE, ret |-> TRUE,
          index |-> [v \in DOMAIN index \ {vector_id} |-> index[v]]]
    ELSE [raised |-> FALSE, ret |-> FALSE, index |-> index]

(***************************************************************************)
(* services/parser.py: the regular expressions of _fallback_extraction,    *)
(* matched the way Python's re does: leftmost start, greedy repetition,    *)
(* backtracking to the next shorter choice.                                *)
(***************************************************************************)
Digit == {"0", "1", "2", "3", "4", "5", "6", "7", "8", "9"}
Alpha ==
    {"a", "b", "c", "d", "e", "f", "g", "h", "i", "j", "k", "l", "m", "n", "o", "p", "q", "r", "s", "t", "u", "v", "w", "x", "y", "z"}
    \cup {"A", "B", "C", "D", "E", "F", "G", "H", "I", "J", "K", "L", "M", "N", "O", "P", "Q", "R", "S", "T", "U", "V", "W", "X", "Y", "Z"}
\* \w
WordChars == Alpha \cup Digit \cup {"_"}
\* \s
Whitespace == {" ", "\n", "\t"}
\* [A-Za-z0-9._%+-]
EmailLocalChars == Alpha \cup Digit \cup {".", "_", "%", "+", "-"}
\* [A-Za-z0-9.-]
EmailDomainChars == Alpha \cup Digit \cup {".", "-"}
\* [A-Z|a-z]
EmailTldChars == Alpha \cup {"|"}
\* [-.\s]
PhoneSepChars == {"-", "."} \cup Whitespace
\* [a-zA-Z0-9-]
LinkedinChars == Alpha \cup Digit \cup {"-"}

MaxOf(S) == CHOOSE m \in S : \A n \in S : n <= m
MinOf(S) == CHOOSE m \in S : \A n \in S : m <= n

IsWordAt(text, k) == k \in 1..Len(text) /\ text[k] \in WordChars

\* \b just before position k
WordBoundary(text, k) == IsWordAt(text, k - 1) # IsWordAt(text, k)

\* A greedy class+ or class* from position i takes all of i..RunEnd.
RunEnd(text, i, class) ==
    MaxOf({q \in (i - 1)..Len(text) : \A k \in i..q : text[k] \in class})

MatchLit(text, p, lit) ==
    /\ p + Len(lit) - 1 <= Len(text)
    /\ SubSeq(text, p, p + Len(lit) - 1) = lit

\* email_pattern, from the "." at r + 1 on: the ends n of a top-level part
\* [A-Z|a-z]{2,} that stops at a word boundary
EmailTldEnds(text, r) ==
    {n \in (r + 3)..Len(text) :
        /\ \A k \in (r + 2)..n : text[k] \in EmailTldChars
        /\ WordBoundary(text, n + 1)}

\* the ends r of a domain part after which "." and a top-level part match
EmailDomainEnds(text, at, dmax) ==
    {r \in (at + 1)..dmax :
        /\ r + 1 <= Len(text)
        /\ text[r + 1] = "."
        /\ EmailTldEnds(text, r) # {}}

\* greedy: the longest domain part that works, then the longest top-level part
EmailEndFrom(text, Rs) ==
    IF Rs = {} THEN 0 ELSE MaxOf(EmailTldEnds(text, MaxOf(Rs)))

EmailAfterAt(text, at) ==
    EmailEndFrom(text,
                 EmailDomainEnds(text, at, RunEnd(text, at + 1, EmailDomainChars)))

\* The local part is the whole run i..q up to "@": a shorter one would be
\* followed by a local character, not by "@".
EmailAfterLocal(text, i, q) ==
    IF /\ WordBoundary(text, i)
       /\ q >= i
       /\ q + 1 <= Len(text)
       /\ text[q + 1] = "@"
    THEN EmailAfterAt(text, q + 1)
    ELSE 0

\* email_pattern matched at start i: the last position of the match, 0 if none
EmailMatchEnd(text, i) ==
    EmailAfterLocal(text, i, RunEnd(text, i, EmailLocalChars))

EmailStarts(text) == {i \in 1..Len(text) : EmailMatchEnd(text, i) > 0}

\* email_match.group()
email_group(text, i) == SubSeq(text, i, EmailMatchEnd(text, i))

\* Variant: the match at the greatest start.
last_email(text, starts) ==
    IF starts = {} THEN <<>> ELSE email_group(text, MaxOf(starts))

\* re.search scans from the left: the match at the least start
first_email(text, starts) ==
    IF starts = {} THEN <<>> ELSE email_group(text, MinOf(starts))

\* email_match.group() if email_match else ""
search_email(text) == first_email(text, EmailStarts(text))

\* phone_pattern has seven optional items, in this order: "+", "1", a
\* separator (these three are group 1), "(", ")", a separator, a separator.
\* c[k] = 1 takes item k and c[k] = 0 skips it; c[8] = 1 when the optional
\* group 1 itself takes part in the match.
PhoneChoices == [1..8 -> {0, 1}]

PhoneEnd(i, c) == i + c[1] + c[2] + c[3] + c[4] + 3 + c[5] + c[6] + 3 + c[7] + 3

PhoneMatches(text, i, c) ==
    LET a1 == i + c[1]
        a2 == a1 + c[2]
        a3 == a2 + c[3]
        a4 == a3 + c[4]
        a5 == a4 + 3 + c[5]
        a6 == a5 + c[6]
        a7 == a6 + 3 + c[7]
    IN  /\ PhoneEnd(i, c) <= Len(text)
        /\ c[8] = 0 => c[1] + c[2] + c[3] = 0
        /\ c[1] = 1 => text[i] = "+"
        /\ c[2] = 1 => text[a1] = "1"
        /\ c[3] = 1 => text[a2] \in PhoneSepChars
        /\ c[4] = 1 => text[a3] = "("
        /\ \A k \in a4..(a4 + 2) : text[k] \in Digit
        /\ c[5] = 1 => text[a4 + 3] = ")"
        /\ c[6] = 1 => text[a5] \in PhoneSepChars
        /\ \A k \in a6..(a6 + 2) : text[k] \in Digit
        /\ c[7] = 1 => text[a6 + 3] \in PhoneSepChars
        /\ \A k \in a7..(a7 + 3) : text[k] \in Digit

\* A greedy "?" tries taking its item before skipping it, the earlier items
\* deciding first; the optional group is tried before it is skipped.
PhonePreference(c) ==
    128 * c[8] + 64 * c[1] + 32 * c[2] + 16 * c[3] + 8 * c[4] + 4 * c[5]
    + 2 * c[6] + c[7]

\* the choice the backtracking search reaches first
PreferredChoice(ok) ==
    CHOOSE c \in ok : \A w \in ok : PhonePreference(w) <= PhonePreference(c)

PhoneChoice(text, i) ==
    PreferredChoice({c \in PhoneChoices : PhoneMatches(text, i, c)})

\* phone_match.groups(): group 1 is None when it took no part in the match.
PhoneGroups(text, i, c) ==
    LET a3 == i + c[1] + c[2] + c[3]
        a4 == a3 + c[4]
        a6 == a4 + 3 + c[5] + c[6]
        a7 == a6 + 3 + c[7]
    IN  << IF c[8] = 1 THEN PyStr(SubSeq(text, i, a3 - 1)) ELSE PyNone,
           PyStr(SubSeq(text, a4, a4 + 2)),
           PyStr(SubSeq(text, a6, a6 + 2)),
           PyStr(SubSeq(text, a7, a7 + 3)) >>

\* one step of ''.join: TypeError on an item that is not a str
join_item(item, rest) ==
    IF item.type # "str" \/ rest.raised
    THEN [raised |-> TRUE, ret |-> <<>>]
    ELSE [raised |-> FALSE, ret |-> item.value \o rest.ret]

\* ''.join(groups)
RECURSIVE str_join(_)
str_join(groups) ==
    IF groups = <<>> THEN [raised |-> FALSE, ret |-> <<>>]
    ELSE join_item(Head(groups), str_join(Tail(groups)))

PhoneStarts(text) ==
    {i \in 1..Len(text) : \E c \in PhoneChoices : PhoneMatches(text, i, c)}

phone_joined(text, i) == str_join(PhoneGroups(text, i, PhoneChoice(text, i)))

first_phone(text, starts) ==
    IF starts = {} THEN [raised |-> FALSE, ret |-> <<>>]
    ELSE phone_joined(text, MinOf(starts))

\* ''.join(phone_match.groups()) if phone_match else ""
search_phone(text) == first_phone(text, PhoneStarts(text))

\* linkedin_pattern matched at start i: the last position of the match, 0 if
\* none.  "s" and "www." are taken when present; the profile name is the
\* whole run of name characters.
LinkedinMatchEnd(text, i) ==
    LET p1 == i + 4
        p2 == IF MatchLit(text, p1, <<"s">>) THEN p1 + 1 ELSE p1
        p3 == p2 + 3
        p4 == IF MatchLit(text, p3, <<"w", "w", "w", ".">>) THEN p3 + 4 ELSE p3
        p5 == p4 + Len(<<"l", "i", "n", "k", "e", "d", "i", "n", ".", "c", "o", "m", "/", "i", "n", "/">>)
    IN  IF /\ MatchLit(text, i, <<"h", "t", "t", "p">>)
           /\ MatchLit(text, p2, <<":", "/", "/">>)
           /\ MatchLit(text, p4, <<"l", "i", "n", "k", "e", "d", "i", "n", ".", "c", "o", "m", "/", "i", "n", "/">>)
           /\ RunEnd(text, p5, LinkedinChars) >= p5
        THEN RunEnd(text, p5, LinkedinChars) ELSE 0

LinkedinStarts(text) == {i \in 1..Len(text) : LinkedinMatchEnd(text, i) > 0}

linkedin_group(text, i) == SubSeq(text, i, LinkedinMatchEnd(text, i))

first_linkedin(text, starts) ==
    IF starts = {} THEN <<>> ELSE linkedin_group(text, MinOf(starts))

\* linkedin_match.group() if linkedin_match else ""
search_linkedin(text) == first_linkedin(text, LinkedinStarts(text))

\* skills_pattern matched at start i: a run of letters between two word
\* boundaries (a shorter run ends between two letters, at no boundary); the
\* last position of the match, 0 if none
WordEndFrom(text, i, q) ==
    IF WordBoundary(text, i) /\ q >= i /\ WordBoundary(text, q + 1)
    THEN q ELSE 0

WordMatchEnd(text, i) == WordEndFrom(text, i, RunEnd(text, i, Alpha))

WordStarts(text, pos) == {i \in pos..Len(text) : WordMatchEnd(text, i) > 0}

\* re.findall(skills_pattern, text), scanning from position pos: the match
\* at the least start, then the matches after its end
RECURSIVE findall_words(_, _)
word_then_rest(text, i, q) ==
    <<SubSeq(text, i, q)>> \o findall_words(text, q + 1)

words_from(text, starts) ==
    IF starts = {} THEN <<>>
    ELSE word_then_rest(text, MinOf(starts), WordMatchEnd(text, MinOf(starts)))

findall_words(text, pos) == words_from(text, WordStarts(text, pos))

\* text[:n]
Prefix(text, n) == SubSeq(text, 1, IF Len(text) < n THEN Len(text) ELSE n)

SummaryLen == 200

DefaultSummary == <<"R", "e", "s", "u", "m", "e", " ", "c", "o", "n", "t", "e", "n", "t", " ", "e", "x", "t", "r", "a", "c", "t", "e", "d">>

\* the dict _fallback_extraction returns
fallback_record(text, email, phone, linkedin, skills) ==
    IF phone.raised THEN [raised |-> TRUE]
    ELSE [raised |-> FALSE,
          ret |-> [skills |-> skills,
                   experience |-> <<>>,
                   education |-> <<>>,
                   contact_info |-> [email |-> PyStr(email),
                                     phone |-> PyStr(phone.ret),
                                     linkedin |-> PyStr(linkedin)],
                   summary |-> IF text # <<>> THEN Prefix(text, SummaryLen)
                               ELSE DefaultSummary]]

\* ResumeParser._fallback_extraction
fallback_extraction(text) ==
    fallback_record(text, search_email(text), search_phone(text),
                    search_linkedin(text), findall_words(text, 1))

\* What client.responses.parse can give back: it raises, or it returns a
\* record of the ResumeStructuredOutput schema, whose ContactInfo fields are
\* Optional and default to None.
ContactValues == {PyNone, PyStr(<<"x">>)}

LLMOutputs ==
    {[skills |-> << <<"g", "o">> >>,
      experience |-> << [company |-> <<"c">>, position |-> <<"p">>,
                         duration |-> <<"1">>, description |-> <<"d">>] >>,
      education |-> <<>>,
      contact_info |-> [email |-> e, phone |-> p, linkedin |-> l],
      summary |-> <<"s">>] : e \in ContactValues, p \in ContactValues,
                             l \in ContactValues}

LLMResponses ==
    {[raised |-> TRUE]} \cup {[raised |-> FALSE, output_parsed |-> o] : o \in LLMOutputs}

\* Variant: the except block raises again instead of falling back.
fallback_result_reraise(fallback) ==
    [raised |-> TRUE,
     log |-> {"OpenAI structured output API call failed"}]

\* lines 144-147: the except block logs and returns the fallback's result
\* (an exception of the fallback itself would leave the method)
fallback_result(fallback) ==
    IF fallback.raised
    THEN [raised |-> TRUE,
          log |-> {"OpenAI structured output API call failed",
                   "Using fallback extraction method"}]
    ELSE [raised |-> FALSE, ret |-> fallback.ret,
          log |-> {"OpenAI structured output API call failed",
                   "Using fallback extraction method"}]

\* lines 111-142: the parsed output copied into a dict
parsed_result(output_parsed) ==
    [raised |-> FALSE,
     ret |-> [skills |-> output_parsed.skills,
              experience |-> output_parsed.experience,
              education |-> output_parsed.education,
              contact_info |-> output_parsed.contact_info,
              summary |-> output_parsed.summary],
     log |-> {"Successfully extracted structured data"}]

\* ResumeParser.extract_structured_data_with_openai
extract_structured_data_with_openai(text, llm) ==
    IF llm.raised
    THEN fallback_result(fallback_extraction(text))
    ELSE parsed_result(llm.output_parsed)

\* parse_resume, lines 198-249: the structured data is converted to the
\* ResumeContent and ResumeMetadata models; a pydantic validation error,
\* like any other exception, is logged and re-raised.
convert_structured_data(text, pages, file_size, sd) ==
    IF sd.raised
    THEN [raised |-> TRUE, e |-> "fallback extraction error",
          log |-> sd.log \cup {"Failed to parse resume"}]
    ELSE IF ~ResumeContentValid(sd.ret.contact_info)
    THEN [raised |-> TRUE, e |-> "validation error for ResumeContent",
          log |-> sd.log \cup {"Failed to parse resume"}]
    ELSE [raised |-> FALSE,
          content |-> [text |-> text,
                       skills |-> sd.ret.skills,
                       experience |-> sd.ret.experience,
                       education |-> sd.ret.education,
                       contact_info |-> sd.ret.contact_info,
                       summary |-> sd.ret.summary],
          metadata |-> [file_size |-> file_size, pages |-> pages,
                        processing_time |-> "processing_time",
                        extracted_at |-> "now"],
          log |-> sd.log \cup {"Successfully parsed resume using OpenAI"}]

\* ResumeParser.parse_resume after extract_text returned
parse_resume_fields(text, pages, file_size, llm) ==
    convert_structured_data(text, pages, file_size,
                            extract_structured_data_with_openai(text, llm))

(***************************************************************************)
(* api/routes/upload.py                                                    *)
(***************************************************************************)
\* The texts a PDF of the model can hold.
SampleTexts == {<<"j", "@", "x", ".", "c", "o">>}

\* lines 57-62: resume_data
UploadedResume ==
    [filename |-> "file.filename", upload_date |-> "now",
     status |-> PROCESSING, file_size |-> "len(content)"]

\* Variant: the task is queued although create_resume raised.
upload_resume_queue_anyway(outcome) ==
    LET n == created + 1
    IN  /\ created < MaxUploads
        /\ created' = n
        /\ uploads' = uploads \cup {n}
        /\ collection' = IF outcome = "create_raises" THEN collection
                         ELSE (n :> UploadedResume) @@ collection
        /\ task' = IF outcome # "delay_raises"
                   THEN (n :> [pc |-> "queued", resume_id |-> n, pdf_path |-> n,
                               file_size |-> "len(content)", log |-> {},
                               published |-> <<>>]) @@ task
                   ELSE task
        /\ UNCHANGED <<pinecone_index, deleting, search, fb>>

\* upload_resume: the file is saved under a fresh name, the record is created
\* with status PROCESSING and the task is queued with the record's id.
\* create_resume or delay may raise; the handler then answers 500.
upload_resume(outcome) ==
    LET n == created + 1
        resume_data == UploadedResume
    IN  /\ created < MaxUploads
        /\ created' = n
        /\ uploads' = uploads \cup {n}
        /\ collection' = IF outcome = "create_raises" THEN collection
                         ELSE (n :> resume_data) @@ collection
        /\ task' = IF outcome = "ok"
                   THEN (n :> [pc |-> "queued", resume_id |-> n, pdf_path |-> n,
                               file_size |-> "len(content)", log |-> {},
                               published |-> <<>>]) @@ task
                   ELSE task
        /\ UNCHANGED <<pinecone_index, deleting, search, fb>>

(***************************************************************************)
(* tasks/processing.py: process_resume_task, one action per stage.  A      *)
(* stage that raises jumps to the except block (pc "fail_write").          *)
(***************************************************************************)
Set(d, fields) == task' = [task EXCEPT ![d] = fields @@ task[d]]

\* The function returns or raises: its local variables are gone and the
\* task keeps its arguments, what it published and logged, and its result.
Return(d, result, log) ==
    task' = [task EXCEPT ![d] = [pc |-> "done",
                                 resume_id |-> task[d].resume_id,
                                 pdf_path |-> task[d].pdf_path,
                                 file_size |-> task[d].file_size,
                                 published |-> task[d].published,
                                 log |-> task[d].log \cup log,
                                 result |-> result]]

\* Variant: a stage that raises puts the task back on the queue.
RaiseFields_retry(d, e, log) ==
    [pc |-> "queued", e |-> e,
     log |-> task[d].log \cup log \cup {"Failed to process resume"}]

RaiseFields(d, e, log) ==
    [pc |-> "fail_write", e |-> e,
     log |-> task[d].log \cup log \cup {"Failed to process resume"}]

Raise(d, e, log) == Set(d, RaiseFields(d, e, log))

\* lines 41-48: a worker picks the task up and publishes checkpoint 0
start(d) ==
    /\ d \in DOMAIN task
    /\ task[d].pc = "queued"
    /\ Set(d, [pc |-> "extract_text", published |-> <<0>>])
    /\ UNCHANGED <<collection, pinecone_index, uploads, created, deleting, search, fb>>

\* parse_resume, first half: ResumeParser.extract_text returns (text, pages)
\* or raises
extract_text(d, ok, text) ==
    /\ d \in DOMAIN task
    /\ task[d].pc = "extract_text"
    /\ IF ok
       THEN Set(d, [pc |-> "extract_fields", text |-> text, pages |-> "pages"])
       ELSE Raise(d, "pdf error", {"Failed to extract text from PDF",
                                   "Failed to parse resume"})
    /\ UNCHANGED <<collection, pinecone_index, uploads, created, deleting, search, fb>>

\* lines 52-58: parse_resume raised, or content and metadata are bound and
\* checkpoint 1 is published
parsed(d, r) ==
    IF r.raised
    THEN Raise(d, r.e, r.log)
    ELSE Set(d, [pc |-> "embed", content |-> r.content,
                 metadata |-> r.metadata,
                 log |-> task[d].log \cup r.log,
                 published |-> Append(task[d].published, 1)])

\* parse_resume, second half, then checkpoint 1
extract_fields(d, llm) ==
    /\ d \in DOMAIN task
    /\ task[d].pc = "extract_fields"
    /\ parsed(d, parse_resume_fields(task[d].text, task[d].pages,
                                     task[d].file_size, llm))
    /\ UNCHANGED <<collection, pinecone_index, uploads, created, deleting, search, fb>>

\* Variant: an error of the embedding is logged and an empty vector returned.
embed_swallowed(d, ok) ==
    /\ d \in DOMAIN task
    /\ task[d].pc = "embed"
    /\ Set(d, [pc |-> "upsert",
               embedding |-> IF ok THEN "avg_embedding" ELSE "[]",
               log |-> task[d].log
                       \cup (IF ok THEN {}
                             ELSE {"Failed to create resume embeddings"}),
               published |-> Append(task[d].published, 2)])
    /\ UNCHANGED <<collection, pinecone_index, uploads, created, deleting, search, fb>>

\* embedding_service.create_resume_embeddings, then checkpoint 2
embed(d, ok) ==
    /\ d \in DOMAIN task
    /\ task[d].pc = "embed"
    /\ IF ok
       THEN Set(d, [pc |-> "upsert", embedding |-> "avg_embedding",
                    published |-> Append(task[d].published, 2)])
       ELSE Raise(d, "embedding error", {"Failed to create resume embeddings"})
    /\ UNCHANGED <<collection, pinecone_index, uploads, created, deleting, search, fb>>

\* Variant: the result of add_vector is never looked at.
vector_failed_never(vector_success) == FALSE

\* lines 86-87
vector_failed(vector_success) == ~vector_success

\* lines 72-92: add_vector, the check of its result, checkpoint 3
upsert(d, pinecone_ok) ==
    /\ d \in DOMAIN task
    /\ task[d].pc = "upsert"
    /\ LET vector_id == VectorId(task[d].resume_id)
           vector_metadata == [resume_id |-> task[d].resume_id,
                               filename |-> task[d].pdf_path,
                               skills |-> task[d].content.skills,
                               upload_date |-> "now"]
           r == add_vector(pinecone_index, vector_id, task[d].embedding,
                           vector_metadata, pinecone_ok)
       IN  /\ pinecone_index' = r.index
           /\ IF vector_failed(r.ret)
              THEN Set(d, [vector_success |-> r.ret]
                          @@ RaiseFields(d, "Failed to store vector in database",
                                         r.log))
              ELSE Set(d, [pc |-> "persist", vector_id |-> vector_id,
                           vector_success |-> r.ret,
                           log |-> task[d].log \cup r.log,
                           published |-> Append(task[d].published, 3)])
    /\ UNCHANGED <<collection, uploads, created, deleting, search, fb>>

\* Variant: the update to PROCESSED carries the status and the vector id only.
processed_update_data_bare(content, metadata, vector_id) ==
    [status |-> PROCESSED, vector_id |-> vector_id]

\* lines 94-99
processed_update_data(content, metadata, vector_id) ==
    [status |-> PROCESSED, content |-> content, metadata |-> metadata,
     vector_id |-> vector_id]

\* Variant: the check of db_success is inverted.
db_failed_inverted(db_success) == db_success

\* lines 104-105
db_failed(db_success) == ~db_success

\* lines 94-105: the single update to PROCESSED and the check of its result
persist(d, db_ok) ==
    /\ d \in DOMAIN task
    /\ task[d].pc = "persist"
    /\ LET update_data == processed_update_data(task[d].content,
                                                task[d].metadata,
                                                task[d].vector_id)
           r == update_resume(collection, task[d].resume_id, update_data, db_ok)
       IN  /\ collection' = r.coll
           /\ IF r.raised
              THEN Raise(d, "database error", {"Failed to update resume",
                                               "Error in async operation"})
              ELSE IF db_failed(r.ret)
              THEN Set(d, [db_success |-> r.ret]
                          @@ RaiseFields(d, "Failed to update resume in database", {}))
              ELSE Set(d, [pc |-> "cleanup", db_success |-> r.ret])
    /\ UNCHANGED <<pinecone_index, uploads, created, deleting, search, fb>>

\* os.remove(path): fs_ok is whether the file system lets the file go
os_remove(files, path, fs_ok) ==
    IF path \in files /\ fs_ok
    THEN [raised |-> FALSE, files |-> files \ {path}]
    ELSE [raised |-> TRUE, files |-> files]

\* lines 107-122: the file is removed, a failure only logged; success result
cleanup(d, fs_ok) ==
    /\ d \in DOMAIN task
    /\ task[d].pc = "cleanup"
    /\ LET r == os_remove(uploads, task[d].pdf_path, fs_ok)
       IN  /\ uploads' = r.files
           /\ Return(d, [status |-> "success",
                          resume_id |-> task[d].resume_id,
                          vector_id |-> task[d].vector_id],
                      (IF r.raised THEN {"Failed to clean up PDF file"}
                       ELSE {"Cleaned up PDF file"})
                      \cup {"Successfully processed resume"})
    /\ UNCHANGED <<collection, pinecone_index, created, deleting, search, fb>>

\* Variant: the FAILED update carries no error_message.
failed_kwargs_none(e) == [detail |-> e]

\* line 132: the keyword arguments of the FAILED update
failed_kwargs(e) == [error_message |-> e]

\* Variant: an exception of the FAILED update is not caught and ends the task.
fail_write_propagates(d, db_ok) ==
    /\ d \in DOMAIN task
    /\ task[d].pc = "fail_write"
    /\ LET r == update_resume_status(collection, task[d].resume_id, FAILED,
                                     failed_kwargs(task[d].e), db_ok)
       IN  /\ collection' = r.coll
           /\ IF r.raised
              THEN Return(d, [status |-> "failure", exc |-> "database error"],
                          {"Failed to update resume", "Error in async operation"})
              ELSE Set(d, [pc |-> "fail_cleanup"])
    /\ UNCHANGED <<pinecone_index, uploads, created, deleting, search, fb>>

\* lines 124-135: the best-effort update to FAILED; its result is not read
\* and an exception is only logged
fail_write(d, db_ok) ==
    /\ d \in DOMAIN task
    /\ task[d].pc = "fail_write"
    /\ LET r == update_resume_status(collection, task[d].resume_id, FAILED,
                                     failed_kwargs(task[d].e), db_ok)
       IN  /\ collection' = r.coll
           /\ Set(d, [pc |-> "fail_cleanup",
                      log |-> task[d].log
                              \cup (IF r.raised
                                    THEN {"Failed to update resume",
                                          "Error in async operation",
                                          "Failed to update resume status"}
                                    ELSE {})])
    /\ UNCHANGED <<pinecone_index, uploads, created, deleting, search, fb>>

\* Variant: the except block raises again without removing the file.
fail_cleanup_skipped(d, fs_ok) ==
    /\ d \in DOMAIN task
    /\ task[d].pc = "fail_cleanup"
    /\ Return(d, [status |-> "failure", exc |-> task[d].e], {})
    /\ UNCHANGED <<collection, pinecone_index, uploads, created, deleting, search, fb>>

\* lines 137-144: the file is removed when it exists, a failure only logged;
\* the exception is raised again and is the task's result
fail_cleanup(d, fs_ok) ==
    /\ d \in DOMAIN task
    /\ task[d].pc = "fail_cleanup"
    /\ LET exists == task[d].pdf_path \in uploads
           r == os_remove(uploads, task[d].pdf_path, fs_ok)
       IN  /\ uploads' = IF exists THEN r.files ELSE uploads
           /\ Return(d, [status |-> "failure", exc |-> task[d].e],
                      IF exists /\ r.raised
                      THEN {"Failed to clean up PDF file"} ELSE {})
    /\ UNCHANGED <<collection, pinecone_index, created, deleting, search, fb>>

process_resume_task(d) ==
    \/ start(d)
    \/ \E ok \in BOOLEAN, text \in SampleTexts : extract_text(d, ok, text)
    \/ \E llm \in LLMResponses : extract_fields(d, llm)
    \/ \E ok \in BOOLEAN : embed(d, ok)
    \/ \E pinecone_ok \in BOOLEAN : upsert(d, pinecone_ok)
    \/ \E db_ok \in BOOLEAN : persist(d, db_ok)
    \/ \E fs_ok \in BOOLEAN : cleanup(d, fs_ok)
    \/ \E db_ok \in BOOLEAN : fail_write(d, db_ok)
    \/ \E fs_ok \in BOOLEAN : fail_cleanup(d, fs_ok)

DocIds == 1..MaxUploads

(***************************************************************************)
(* api/routes/resumes.py: delete_resume, one action per awaited call       *)
(***************************************************************************)
\* lines 94-101: the record is read; None answers 404, an exception 500
delete_get(d, db_ok) ==
    /\ deleting.pc = "idle"
    /\ deleting' =
         IF get_resume(collection, d, db_ok).raised
         THEN [pc |-> "idle", response |-> 500]
         ELSE IF ~get_resume(collection, d, db_ok).found
         THEN [pc |-> "idle", response |-> 404]
         ELSE IF HasField(collection[d], "vector_id")
         THEN [pc |-> "found", resume_id |-> d,
               vector_id |-> collection[d].vector_id]
         ELSE [pc |-> "found", resume_id |-> d]
    /\ UNCHANGED <<collection, pinecone_index, uploads, task, created, search, fb>>

\* lines 103-123: the vector is deleted when the record read had a
\* vector_id (the result is not looked at), then the record is deleted;
\* False or an exception answers 500
delete_commit(pinecone_ok, db_ok) ==
    /\ deleting.pc = "found"
    /\ pinecone_index' =
         IF HasField(deleting, "vector_id")
         THEN delete_vector(pinecone_index, deleting.vector_id, pinecone_ok).index
         ELSE pinecone_index
    /\ LET r == db_delete_resume(collection, deleting.resume_id, db_ok)
       IN  /\ collection' = r.coll
           /\ deleting' = [pc |-> "idle",
                           response |-> IF r.raised \/ ~r.ret THEN 500 ELSE 200]
    /\ UNCHANGED <<uploads, task, created, search, fb>>

delete_resume ==
    \/ \E d \in DocIds, db_ok \in BOOLEAN : delete_get(d, db_ok)
    \/ \E pinecone_ok \in BOOLEAN, db_ok \in BOOLEAN : delete_commit(pinecone_ok, db_ok)

(***************************************************************************)
(* services/vector_store.py: search_similar; api/routes/search.py          *)
(***************************************************************************)
MaxScore == 2
MaxTopK == 3

\* Similarity scores, in steps; min_similarity ranges over the same scale.
Scores == 1..MaxScore
TopKs == 1..MaxTopK

\* What pinecone_index.query(vector, top_k, include_metadata=True) can
\* answer: top_k of the stored vectors (all of them when there are fewer),
\* each once, with some score, in the order the index gives them.
QueryResults(index, top_k) ==
    LET n == IF top_k < Cardinality(DOMAIN index)
             THEN top_k ELSE Cardinality(DOMAIN index)
    IN  {[k \in 1..n |-> [id |-> ids[k], score |-> scores[k],
                          metadata |-> index[ids[k]].metadata]] :
            ids \in {f \in [1..n -> DOMAIN index] :
                       \A a, b \in 1..n : a # b => f[a] # f[b]},
            scores \in [1..n -> Scores]}

\* Variant: no threshold.
passes_min_similarity_always(score, min_similarity) == TRUE

\* line 75
passes_min_similarity(score, min_similarity) == score >= min_similarity

\* lines 73-83: the matches at or above min_similarity, in the index's order
filter_matches(matches, min_similarity) ==
    SelectSeq(matches, LAMBDA m : passes_min_similarity(m.score, min_similarity))

\* What the query call can do: raise, or answer with matches.
QueryOutcomes(index, top_k) ==
    {[raised |-> TRUE]}
    \cup {[raised |-> FALSE, matches |-> r] : r \in QueryResults(index, top_k)}

\* VectorStoreService.search_similar: any exception gives the empty list
search_similar(query, min_similarity) ==
    IF query.raised THEN <<>> ELSE filter_matches(query.matches, min_similarity)

\* Variant: the match is kept whenever the record exists.
keep_match_found(r) == r.found

\* line 44: the match is kept when the record exists and is PROCESSED
keep_match(r) == r.found /\ r.resume.status = PROCESSED

\* lines 46-56
ResumeMatch(resume_id, resume, similarity_score) ==
    [id |-> resume_id,
     filename |-> resume.filename,
     similarity_score |-> similarity_score,
     skills |-> IF HasField(resume, "content") THEN resume.content.skills ELSE <<>>,
     experience_years |-> IF HasField(resume, "content")
                          THEN Len(resume.content.experience) ELSE 0,
     summary |-> IF HasField(resume, "content")
                 THEN PyStr(resume.content.summary) ELSE PyNone,
     upload_date |-> resume.upload_date]

\* Variant: an unstable sort, equal items change places.
stays_before_strict(x, m) == x.similarity_score > m.similarity_score

\* In a list sorted by descending score, the items that stay in front of a
\* later item m of the input: list.sort is stable, also with reverse=True,
\* so the items that compare equal to m stay in front of it.
stays_before(x, m) == x.similarity_score >= m.similarity_score

insert_match(sorted, m) ==
    SelectSeq(sorted, LAMBDA x : stays_before(x, m))
    \o <<m>>
    \o SelectSeq(sorted, LAMBDA x : ~stays_before(x, m))

\* line 59: resume_matches.sort(key=lambda x: x.similarity_score, reverse=True)
RECURSIVE sort_matches(_)
sort_matches(matches) ==
    IF matches = <<>> THEN <<>>
    ELSE insert_match(sort_matches(SubSeq(matches, 1, Len(matches) - 1)),
                      matches[Len(matches)])

\* lines 27-36: the job description is embedded and the index is queried;
\* an exception of the embedding answers 500.  log is what the request has
\* logged as errors.
search_query(top_k, min_similarity, embed_ok, query) ==
    /\ search.pc \in {"idle", "done"}
    /\ search' =
         IF ~embed_ok
         THEN [pc |-> "done", response |-> [status_code |-> 500],
               log |-> {"Failed to create job embedding",
                        "Failed to search resumes"}]
         ELSE [pc |-> "fetch", top_k |-> top_k,
               min_similarity |-> min_similarity,
               vector_matches |-> search_similar(query, min_similarity),
               i |-> 1, resume_matches |-> <<>>,
               log |-> IF query.raised THEN {"Failed to search Pinecone"}
                       ELSE {}]
    /\ UNCHANGED <<collection, pinecone_index, uploads, task, created, deleting, fb>>

\* lines 39-56, one turn of the loop: the record of the next match is
\* fetched; an exception of the fetch answers 500
fetched(r, hit) ==
    IF keep_match(r)
    THEN [search EXCEPT !.i = @ + 1,
                        !.resume_matches =
                            Append(@, ResumeMatch(hit.metadata.resume_id,
                                                  r.resume, hit.score))]
    ELSE [search EXCEPT !.i = @ + 1]

\* Variant: a search stamps the documents when it fetches one.
search_fetch_stamping(db_ok) ==
    /\ search.pc = "fetch"
    /\ search.i <= Len(search.vector_matches)
    /\ search' = [search EXCEPT !.i = @ + 1]
    /\ collection' = [d \in DOMAIN collection |->
                         [last_search |-> "now"] @@ collection[d]]
    /\ UNCHANGED <<pinecone_index, uploads, task, created, deleting, fb>>

\* Variant: a fetch that raises is logged and the match is skipped.
search_fetch_skipping(db_ok) ==
    /\ search.pc = "fetch"
    /\ search.i <= Len(search.vector_matches)
    /\ search' =
         IF ~HasField(search.vector_matches[search.i].metadata, "resume_id")
         THEN [search EXCEPT !.i = @ + 1]
         ELSE IF ~db_ok
         THEN [search EXCEPT !.i = @ + 1,
                             !.log = @ \cup {"Failed to get resume"}]
         ELSE fetched(get_resume(collection,
                                 search.vector_matches[search.i].metadata.resume_id,
                                 db_ok),
                      search.vector_matches[search.i])
    /\ UNCHANGED <<collection, pinecone_index, uploads, task, created, deleting, fb>>

search_fetch(db_ok) ==
    /\ search.pc = "fetch"
    /\ search.i <= Len(search.vector_matches)
    /\ search' =
         IF ~HasField(search.vector_matches[search.i].metadata, "resume_id")
         THEN [search EXCEPT !.i = @ + 1]
         ELSE IF ~db_ok
         THEN [pc |-> "done", response |-> [status_code |-> 500],
               log |-> search.log \cup {"Failed to get resume",
                                        "Failed to search resumes"}]
         ELSE fetched(get_resume(collection,
                                 search.vector_matches[search.i].metadata.resume_id,
                                 db_ok),
                      search.vector_matches[search.i])
    /\ UNCHANGED <<collection, pinecone_index, uploads, task, created, deleting, fb>>

\* Variant: total_matches counts the hits of the index.
search_finish_counting_hits ==
    /\ search.pc = "fetch"
    /\ search.i > Len(search.vector_matches)
    /\ search' = [pc |-> "done",
                  response |-> [status_code |-> 200,
                                matches |-> sort_matches(search.resume_matches),
                                total_matches |-> Len(search.vector_matches)],
                  log |-> search.log]
    /\ UNCHANGED <<collection, pinecone_index, uploads, task, created, deleting, fb>>

\* lines 58-70: the kept matches are sorted and returned
search_finish ==
    /\ search.pc = "fetch"
    /\ search.i > Len(search.vector_matches)
    /\ search' = [pc |-> "done",
                  response |-> [status_code |-> 200,
                                matches |-> sort_matches(search.resume_matches),
                                total_matches |-> Len(search.resume_matches)],
                  log |-> search.log]
    /\ UNCHANGED <<collection, pinecone_index, uploads, task, created, deleting, fb>>

search_resumes ==
    \/ \E top_k \in TopKs, min_similarity \in 0..MaxScore :
          \/ \E query \in QueryOutcomes(pinecone_index, top_k) :
                search_query(top_k, min_similarity, TRUE, query)
          \/ search_query(top_k, min_similarity, FALSE, [raised |-> TRUE])
    \/ \E db_ok \in BOOLEAN : search_fetch(db_ok)
    \/ search_finish

(***************************************************************************)
(* The ingestion system: uploads, units of work, deletes                   *)
(***************************************************************************)
Init ==
    /\ collection = <<>>
    /\ pinecone_index = <<>>
    /\ uploads = {}
    /\ task = <<>>
    /\ created = 0
    /\ deleting = [pc |-> "idle", response |-> 0]
    /\ search = [pc |-> "idle"]
    /\ fb = [pc |-> "idle"]

Next ==
    \/ \E outcome \in {"ok", "create_raises", "delay_raises"} : upload_resume(outcome)
    \/ \E d \in DocIds : process_resume_task(d)
    \/ delete_resume

Spec == Init /\ [][Next]_vars

(***************************************************************************)
(* Searches and deletes next to a unit of work that is about to upsert its *)
(* vector: every document is uploaded; the last one is parsed and its      *)
(* embedding computed, the units of the others have ended with success.    *)
(***************************************************************************)
SampleText == CHOOSE t \in SampleTexts : TRUE

SampleLLM ==
    CHOOSE llm \in LLMResponses :
        ~llm.raised /\ ResumeContentValid(llm.output_parsed.contact_info)

SampleParse == parse_resume_fields(SampleText, "pages", "len(content)", SampleLLM)

TaskAtUpsert(d) ==
    [pc |-> "upsert", resume_id |-> d, pdf_path |-> d,
     file_size |-> "len(content)", log |-> SampleParse.log,
     published |-> <<0, 1, 2>>, text |-> SampleText, pages |-> "pages",
     content |-> SampleParse.content, metadata |-> SampleParse.metadata,
     embedding |-> "avg_embedding"]

TaskSucceeded(d) ==
    [pc |-> "done", resume_id |-> d, pdf_path |-> d,
     file_size |-> "len(content)",
     log |-> SampleParse.log \cup {"Added vector to Pinecone",
                                   "Cleaned up PDF file",
                                   "Successfully processed resume"},
     published |-> <<0, 1, 2, 3>>,
     result |-> [status |-> "success", resume_id |-> d,
                 vector_id |-> VectorId(d)]]

ProcessedResume(d) ==
    processed_update_data(SampleParse.content, SampleParse.metadata, VectorId(d))
    @@ UploadedResume

StoredVector(d) ==
    [values |-> "avg_embedding",
     metadata |-> [resume_id |-> d, filename |-> d,
                   skills |-> SampleParse.content.skills,
                   upload_date |-> "now"]]

InitSearch ==
    /\ collection = [d \in DocIds |-> IF d < MaxUploads THEN ProcessedResume(d)
                                      ELSE UploadedResume]
    /\ pinecone_index = [v \in {VectorId(d) : d \in 1..(MaxUploads - 1)} |->
                            StoredVector(v[2])]
    /\ uploads = {MaxUploads}
    /\ task = [d \in DocIds |-> IF d < MaxUploads THEN TaskSucceeded(d)
                                ELSE TaskAtUpsert(d)]
    /\ created = MaxUploads
    /\ deleting = [pc |-> "idle", response |-> 0]
    /\ search = [pc |-> "idle"]
    /\ fb = [pc |-> "idle"]

NextSearch ==
    \/ \E d \in DocIds :
          \/ \E pinecone_ok \in BOOLEAN : upsert(d, pinecone_ok)
          \/ \E db_ok \in BOOLEAN : persist(d, db_ok)
          \/ \E fs_ok \in BOOLEAN : cleanup(d, fs_ok)
          \/ \E db_ok \in BOOLEAN : fail_write(d, db_ok)
          \/ \E fs_ok \in BOOLEAN : fail_cleanup(d, fs_ok)
    \/ delete_resume
    \/ search_resumes

SpecSearch == InitSearch /\ [][NextSearch]_vars

\* The start of SpecSearch is a state the ingestion system reaches.
NotInitSearch == ~InitSearch

(***************************************************************************)
(* The system of SpecSearch with the worker's end by a crash or by the     *)
(* hard time limit (celery_app.py line 23), the periodic cleanup of the    *)
(* upload directory and the polling of a document's status.                *)
(***************************************************************************)
\* The worker process is killed while it runs the task: nothing of the
\* task runs after that, its except block included.
worker_killed(d) ==
    /\ d \in DOMAIN task
    /\ task[d].pc \notin {"queued", "done", "killed"}
    /\ task' = [task EXCEPT ![d].pc = "killed"]
    /\ UNCHANGED <<collection, pinecone_index, uploads, created, deleting, search, fb>>

\* Variant: the cleanup marks the documents of the files it removes FAILED.
old_files_removed_reconciling(old) ==
    /\ old # {} /\ old \subseteq uploads
    /\ uploads' = uploads \ old
    /\ collection' = [d \in DOMAIN collection |->
                         IF d \in old /\ collection[d].status = PROCESSING
                         THEN [status |-> FAILED] @@ collection[d]
                         ELSE collection[d]]
    /\ UNCHANGED <<pinecone_index, task, created, deleting, search, fb>>

\* tasks/processing.py, cleanup_old_files_task: a run removes the files
\* that are older than 24 hours by then, here the files of old
old_files_removed(old) ==
    /\ old # {} /\ old \subseteq uploads
    /\ uploads' = uploads \ old
    /\ UNCHANGED <<collection, pinecone_index, task, created, deleting, search, fb>>

\* api/routes/upload.py, get_upload_status: fb is the answer
get_upload_status(resume_id, db_ok) ==
    /\ fb' = IF get_resume(collection, resume_id, db_ok).raised
             THEN [pc |-> "returned", status_code |-> 500]
             ELSE IF ~get_resume(collection, resume_id, db_ok).found
             THEN [pc |-> "returned", status_code |-> 404]
             ELSE [pc |-> "returned", status_code |-> 200,
                   status |-> get_resume(collection, resume_id, db_ok).resume.status]
    /\ UNCHANGED <<collection, pinecone_index, uploads, task, created, deleting, search>>

\* Searches here ask for MaxTopK hits with no threshold: the searches that
\* read the most documents.
NextKilled ==
    \/ \E d \in DocIds :
          \/ \E pinecone_ok \in BOOLEAN : upsert(d, pinecone_ok)
          \/ \E db_ok \in BOOLEAN : persist(d, db_ok)
          \/ \E fs_ok \in BOOLEAN : cleanup(d, fs_ok)
          \/ \E db_ok \in BOOLEAN : fail_write(d, db_ok)
          \/ \E fs_ok \in BOOLEAN : fail_cleanup(d, fs_ok)
          \/ worker_killed(d)
          \/ \E db_ok \in BOOLEAN : get_upload_status(d, db_ok)
    \/ delete_resume
    \/ \E query \in QueryOutcomes(pinecone_index, MaxTopK) :
          search_query(MaxTopK, 0, TRUE, query)
    \/ search_query(MaxTopK, 0, FALSE, [raised |-> TRUE])
    \/ \E db_ok \in BOOLEAN : search_fetch(db_ok)
    \/ search_finish
    \/ \E old \in SUBSET uploads : old_files_removed(old)

SpecKilled == InitSearch /\ [][NextKilled]_vars

(***************************************************************************)
(* Searches over an index of MaxHits vectors whose documents are all       *)
(* PROCESSED: the ranking alone.                                           *)
(***************************************************************************)
MaxHits == 3

InitRank ==
    /\ collection = [d \in 1..MaxHits |-> ProcessedResume(d)]
    /\ pinecone_index = [v \in {VectorId(d) : d \in 1..MaxHits} |->
                            StoredVector(v[2])]
    /\ uploads = {}
    /\ task = [d \in 1..MaxHits |-> TaskSucceeded(d)]
    /\ created = MaxHits
    /\ deleting = [pc |-> "idle", response |-> 0]
    /\ search = [pc |-> "idle"]
    /\ fb = [pc |-> "idle"]

SpecRank == InitRank /\ [][search_resumes]_vars

(***************************************************************************)
(* _fallback_extraction alone, on every text made of up to MaxFragments    *)
(* of the fragments below.                                                 *)
(***************************************************************************)
MaxFragments == 3

Fragments ==
    {<<"j", "@", "x", ".", "c", "o">>,
     <<"a", "@", "b", ".", "c", "d">>,
     <<" ">>,
     <<".">>,
     <<"@">>,
     <<"5", "5", "5">>,
     <<"1", "2", "3", "4">>,
     <<"1", " ", "(", "5", "5", "5", ")", " ", "5", "5", "5", "-">>,
     <<"h", "t", "t", "p", ":", "/", "/", "l", "i", "n", "k", "e", "d", "i", "n", ".", "c", "o", "m", "/", "i", "n", "/", "j", "d">>}

RECURSIVE Concat(_)
Concat(parts) == IF parts = <<>> THEN <<>> ELSE Head(parts) \o Concat(Tail(parts))

InitFallback ==
    /\ collection = <<>>
    /\ pinecone_index = <<>>
    /\ uploads = {}
    /\ task = <<>>
    /\ created = 0
    /\ deleting = [pc |-> "idle", response |-> 0]
    /\ search = [pc |-> "idle"]
    /\ fb \in {[pc |-> "called", text |-> t] : t \in {Concat(parts) :
                        parts \in UNION {[1..n -> Fragments] : n \in 0..MaxFragments}}}

\* the call returns its dict or raises
fallback_call ==
    /\ fb.pc = "called"
    /\ fb' = [pc |-> "returned", text |-> fb.text,
              result |-> fallback_extraction(fb.text)]
    /\ UNCHANGED <<collection, pinecone_index, uploads, task, created, deleting, search>>

SpecFallback == InitFallback /\ [][fallback_call]_vars

(***************************************************************************)
(* The vector index client on its own: its three methods are called with   *)
(* the underlying Pinecone call succeeding or raising.  fb holds the last  *)
(* call: the index before it, whether the underlying call raised, and what *)
(* the method gave back.                                                   *)
(***************************************************************************)
InitClient ==
    /\ collection = <<>>
    /\ pinecone_index = <<>>
    /\ uploads = {}
    /\ task = <<>>
    /\ created = 0
    /\ deleting = [pc |-> "idle", response |-> 0]
    /\ search = [pc |-> "idle"]
    /\ fb = [pc |-> "idle"]

client_add_vector(d, embedding, pinecone_ok) ==
    /\ LET r == add_vector(pinecone_index, VectorId(d), embedding,
                           [resume_id |-> d], pinecone_ok)
       IN  /\ pinecone_index' = r.index
           /\ fb' = [pc |-> "returned", method |-> "add_vector",
                     before |-> pinecone_index, failed |-> ~pinecone_ok,
                     raised |-> r.raised, ret |-> r.ret]
    /\ UNCHANGED <<collection, uploads, task, created, deleting, search>>

client_delete_vector(d, pinecone_ok) ==
    /\ LET r == delete_vector(pinecone_index, VectorId(d), pinecone_ok)
       IN  /\ pinecone_index' = r.index
           /\ fb' = [pc |-> "returned", method |-> "delete_vector",
                     before |-> pinecone_index, failed |-> ~pinecone_ok,
                     raised |-> r.raised, ret |-> r.ret]
    /\ UNCHANGED <<collection, uploads, task, created, deleting, search>>

client_search_similar(min_similarity, query) ==
    /\ fb' = [pc |-> "returned", method |-> "search_similar",
              before |-> pinecone_index, failed |-> query.raised,
              matches |-> search_similar(query, min_similarity)]
    /\ UNCHANGED <<collection, pinecone_index, uploads, task, created, deleting, search>>

NextClient ==
    \/ \E d \in DocIds, embedding \in {"avg_embedding", "job_embedding"}, pinecone_ok \in BOOLEAN :
          client_add_vector(d, embedding, pinecone_ok)
    \/ \E d \in DocIds, pinecone_ok \in BOOLEAN : client_delete_vector(d, pinecone_ok)
    \/ \E top_k \in TopKs, min_similarity \in 0..MaxScore :
          \E query \in QueryOutcomes(pinecone_index, top_k) :
             client_search_similar(min_similarity, query)

SpecClient == InitClient /\ [][NextClient]_vars

(***************************************************************************)
(* services/embedding.py: create_chunks                                    *)
(***************************************************************************)
\* settings.openai_chunk_size, a setting; small here so that short texts
\* have paragraphs on both sides of it
ChunkSize == 3
MaxTextLen == 5

\* str.strip()
RECURSIVE lstrip(_)
lstrip(s) == IF s # <<>> /\ Head(s) \in Whitespace THEN lstrip(Tail(s)) ELSE s

RECURSIVE rstrip(_)
rstrip(s) ==
    IF s # <<>> /\ s[Len(s)] \in Whitespace
    THEN rstrip(SubSeq(s, 1, Len(s) - 1)) ELSE s

strip(s) == rstrip(lstrip(s))

\* text.split('\n\n'): the parts between the separators found from the
\* left; cur is the part being read
RECURSIVE split_paragraphs(_, _)
split_paragraphs(text, cur) ==
    IF text = <<>> THEN <<cur>>
    ELSE IF Len(text) >= 2 /\ text[1] = "\n" /\ text[2] = "\n"
    THEN <<cur>> \o split_paragraphs(SubSeq(text, 3, Len(text)), <<>>)
    ELSE split_paragraphs(Tail(text), Append(cur, Head(text)))

\* [.!?]
SentenceEnds == {".", "!", "?"}

RECURSIVE skip_sentence_ends(_)
skip_sentence_ends(s) ==
    IF s # <<>> /\ Head(s) \in SentenceEnds THEN skip_sentence_ends(Tail(s)) ELSE s

\* re.split(r'[.!?]+', paragraph): the parts between the maximal runs of
\* sentence ends
RECURSIVE split_sentences(_, _)
split_sentences(paragraph, cur) ==
    IF paragraph = <<>> THEN <<cur>>
    ELSE IF Head(paragraph) \in SentenceEnds
    THEN <<cur>> \o split_sentences(skip_sentence_ends(paragraph), <<>>)
    ELSE split_sentences(Tail(paragraph), Append(cur, Head(paragraph)))

\* lines 49-50 and 46-47: the running chunk is appended when it is not empty
flush_chunk(chunks, current_chunk) ==
    IF current_chunk # <<>> THEN Append(chunks, strip(current_chunk)) ELSE chunks

\* lines 37-50: the loop over the sentences of a long paragraph
RECURSIVE pack_sentences(_, _, _)
pack_sentence(sentence, rest, current_chunk, chunks) ==
    IF sentence = <<>>
    THEN pack_sentences(rest, current_chunk, chunks)
    ELSE IF Len(current_chunk) + Len(sentence) < ChunkSize
    THEN pack_sentences(rest, current_chunk \o sentence \o <<".", " ">>, chunks)
    ELSE pack_sentences(rest, sentence \o <<".", " ">>,
                        flush_chunk(chunks, current_chunk))

pack_sentences(sentences, current_chunk, chunks) ==
    IF sentences = <<>>
    THEN flush_chunk(chunks, current_chunk)
    ELSE pack_sentence(strip(Head(sentences)), Tail(sentences),
                       current_chunk, chunks)

\* lines 28-50: the loop over the paragraphs
RECURSIVE chunk_paragraphs(_, _)
chunk_paragraphs(paragraphs, chunks) ==
    IF paragraphs = <<>> THEN chunks
    ELSE chunk_paragraphs(
           Tail(paragraphs),
           IF Len(strip(Head(paragraphs))) < ChunkSize
           THEN (IF strip(Head(paragraphs)) # <<>>
                 THEN Append(chunks, strip(Head(paragraphs))) ELSE chunks)
           ELSE pack_sentences(split_sentences(Head(paragraphs), <<>>),
                               <<>>, chunks))

\* EmbeddingService.create_chunks
create_chunks(text) ==
    IF text = <<>> THEN <<>>
    ELSE chunk_paragraphs(split_paragraphs(text, <<>>), <<>>)

\* the texts: up to MaxTextLen of two letters, a blank, a newline and two
\* sentence ends
InitChunks ==
    /\ collection = <<>>
    /\ pinecone_index = <<>>
    /\ uploads = {}
    /\ task = <<>>
    /\ created = 0
    /\ deleting = [pc |-> "idle", response |-> 0]
    /\ search = [pc |-> "idle"]
    /\ fb \in {[pc |-> "called", text |-> t] :
                 t \in UNION {[1..n -> {"a", "b", " ", "\n", ".", "!"}] :
                                 n \in 0..MaxTextLen}}

chunks_call ==
    /\ fb.pc = "called"
    /\ fb' = [pc |-> "returned", text |-> fb.text,
              chunks |-> create_chunks(fb.text)]
    /\ UNCHANGED <<collection, pinecone_index, uploads, task, created, deleting, search>>

SpecChunks == InitChunks /\ [][chunks_call]_vars

(***************************************************************************)
(* services/embedding.py: the average of create_resume_embeddings.         *)
(* A Python float is a binary floating-point number; here it has           *)
(* MantissaBits significant bits instead of 53 and is written as an        *)
(* integer count of the smallest spacing, so the floats are 0 and the      *)
(* integers m * 2^e with |m| < 2^MantissaBits.  Every operation gives the  *)
(* float nearest to the exact result, ties to the even mantissa.           *)
(***************************************************************************)
MantissaBits == 3
MaxCoord == 6
MaxNumbers == 4

RECURSIVE Pow2(_)
Pow2(k) == IF k = 0 THEN 1 ELSE 2 * Pow2(k - 1)

\* the exponent of the float spacing at num/den >= 0
RECURSIVE float_exponent(_, _, _)
float_exponent(num, den, e) ==
    IF num < den * Pow2(MantissaBits + e) THEN e
    ELSE float_exponent(num, den, e + 1)

\* num/den >= 0 rounded to a multiple of 2^e, ties to even
float_round_at(num, den, e) ==
    LET q == den * Pow2(e)
        k == num \div q
        r == num % q
    IN  IF 2 * r > q \/ (2 * r = q /\ k % 2 = 1)
        THEN (k + 1) * Pow2(e) ELSE k * Pow2(e)

\* the float nearest to num/den, den > 0
float_round(num, den) ==
    IF num < 0
    THEN 0 - float_round_at(0 - num, den, float_exponent(0 - num, den, 0))
    ELSE float_round_at(num, den, float_exponent(num, den, 0))

\* sum(...): the items are added from the left, starting from 0
RECURSIVE py_sum(_)
py_sum(xs) ==
    IF xs = <<>> THEN 0
    ELSE float_round(py_sum(SubSeq(xs, 1, Len(xs) - 1)) + xs[Len(xs)], 1)

\* Variant: the sum is divided by the length of a vector.
avg_embedding_by_dimension(embeddings) ==
    [i \in 1..Len(embeddings[1]) |->
        float_round(py_sum([k \in 1..Len(embeddings) |-> embeddings[k][i]]),
                    Len(embeddings[1]))]

\* lines 111-112
avg_embedding(embeddings) ==
    [i \in 1..Len(embeddings[1]) |->
        float_round(py_sum([k \in 1..Len(embeddings) |-> embeddings[k][i]]),
                    Len(embeddings))]

\* the lists of chunk embeddings: at least one vector, all of one length,
\* at most MaxNumbers floats in all, each between -MaxCoord and MaxCoord
InitAverage ==
    /\ collection = <<>>
    /\ pinecone_index = <<>>
    /\ uploads = {}
    /\ task = <<>>
    /\ created = 0
    /\ deleting = [pc |-> "idle", response |-> 0]
    /\ search = [pc |-> "idle"]
    /\ fb \in {[pc |-> "called", embeddings |-> embs] :
                 embs \in UNION {UNION {[1..n -> [1..dim ->
                                           {v \in (0 - MaxCoord)..MaxCoord :
                                               float_round(v, 1) = v}]] :
                                        dim \in 1..(MaxNumbers \div n)} :
                                 n \in 1..MaxNumbers}}

\* lines 110-114: the list is not empty and the average is returned
average_call ==
    /\ fb.pc = "called"
    /\ fb' = [pc |-> "returned", embeddings |-> fb.embeddings,
              avg_embedding |-> avg_embedding(fb.embeddings)]
    /\ UNCHANGED <<collection, pinecone_index, uploads, task, created, deleting, search>>

SpecAverage == InitAverage /\ [][average_call]_vars

(***************************************************************************)
(* services/parser.py: ResumeParser.extract_text.  A pass over the PDF     *)
(* raises or gives the text of each page, empty for a page without text.   *)
(***************************************************************************)
\* line 63: the length under which the second method is tried
MinTextLength == 100

\* lines 57-61 and 67-71: what a pass adds to text
RECURSIVE pages_text(_)
pages_text(pages) ==
    IF pages = <<>> THEN <<>>
    ELSE (IF Head(pages) # <<>> THEN Head(pages) \o <<"\n">> ELSE <<>>)
         \o pages_text(Tail(pages))

\* ResumeParser.extract_text: first is the pass of pdfplumber, second the
\* pass of PyPDF2; text is the one variable both passes add to
ResumeParser_extract_text(first, second) ==
    IF first.raised THEN [raised |-> TRUE]
    ELSE IF Len(strip(pages_text(first.pages))) < MinTextLength
    THEN IF second.raised THEN [raised |-> TRUE]
         ELSE [raised |-> FALSE,
               text |-> strip(pages_text(first.pages) \o pages_text(second.pages)),
               pages |-> Len(second.pages)]
    ELSE [raised |-> FALSE, text |-> strip(pages_text(first.pages)),
          pages |-> Len(first.pages)]

\* the call of extract_text under examination
extract_text_call ==
    /\ fb.pc = "called" /\ fb.method = "extract_text"
    /\ fb' = [pc |-> "returned", method |-> fb.method,
              first |-> fb.first, second |-> fb.second,
              result |-> ResumeParser_extract_text(fb.first, fb.second)]
    /\ UNCHANGED <<collection, pinecone_index, uploads, task, created, deleting, search>>

(***************************************************************************)
(* services/embedding.py: create_resume_embeddings, the chunk list         *)
(***************************************************************************)
\* resume_text[:1000]
TextChunkLen == 1000
\* exp[:500]
ExperienceChunkLen == 500
\* experience[:3]
ExperienceChunks == 3

\* Variant: the skills chunk is appended whether or not there are skills.
resume_chunks_skills_always(resume_text, skills, experience) ==
    LET RECURSIVE join(_)
        join(list) == IF list = <<>> THEN <<>>
                      ELSE IF Len(list) = 1 THEN list[1]
                      ELSE list[1] \o <<",", " ">> \o join(Tail(list))
    IN  <<Prefix(resume_text, TextChunkLen)>>
        \o <<(<<"S", "k", "i", "l", "l", "s", ":", " ">> \o join(skills))>>
        \o [k \in 1..Len(Prefix(experience, ExperienceChunks)) |->
              Prefix(experience[k], ExperienceChunkLen)]

\* lines 93-105: the chunks handed to get_embeddings_batch.  join is
\* ", ".join(list) for a list that is not empty.
resume_chunks(resume_text, skills, experience) ==
    LET RECURSIVE join(_)
        join(list) == IF Len(list) = 1 THEN list[1]
                      ELSE list[1] \o <<",", " ">> \o join(Tail(list))
    IN  <<Prefix(resume_text, TextChunkLen)>>
        \o (IF skills # <<>>
            THEN <<(<<"S", "k", "i", "l", "l", "s", ":", " ">> \o join(skills))>>
            ELSE <<>>)
        \o [k \in 1..Len(Prefix(experience, ExperienceChunks)) |->
              Prefix(experience[k], ExperienceChunkLen)]

\* the call of create_resume_embeddings under examination: the chunk list
\* is built, then get_embeddings_batch returns or raises
create_resume_embeddings_call ==
    /\ fb.pc = "called" /\ fb.method = "create_resume_embeddings"
    /\ fb' = [pc |-> "returned", method |-> fb.method,
              resume_text |-> fb.resume_text, skills |-> fb.skills,
              experience |-> fb.experience,
              result |-> [raised |-> ~fb.batch_ok,
                          chunks |-> resume_chunks(fb.resume_text, fb.skills,
                                                   fb.experience)]]
    /\ UNCHANGED <<collection, pinecone_index, uploads, task, created, deleting, search>>

\* services/database.py: the call of get_resume, update_resume or
\* delete_resume under examination
database_call ==
    /\ fb.pc = "called"
    /\ fb.method \in {"get_resume", "update_resume", "delete_resume"}
    /\ collection' =
         IF fb.method = "update_resume"
         THEN update_resume(collection, fb.resume_id, fb.update_data, fb.db_ok).coll
         ELSE IF fb.method = "delete_resume"
         THEN db_delete_resume(collection, fb.resume_id, fb.db_ok).coll
         ELSE collection
    /\ fb' = [pc |-> "returned", method |-> fb.method,
              resume_id |-> fb.resume_id, db_ok |-> fb.db_ok,
              before |-> collection,
              result |->
                 IF fb.method = "update_resume"
                 THEN update_resume(collection, fb.resume_id, fb.update_data,
                                    fb.db_ok)
                 ELSE IF fb.method = "delete_resume"
                 THEN db_delete_resume(collection, fb.resume_id, fb.db_ok)
                 ELSE get_resume(collection, fb.resume_id, fb.db_ok)]
    /\ UNCHANGED <<pinecone_index, uploads, task, created, deleting, search>>

(***************************************************************************)
(* Single calls, each from a state the program can be in.  fb holds the    *)
(* call under examination and then what it gave back.                      *)
(***************************************************************************)
MaxPages == 2
MaxSkills == 2
MaxExperience == 4

\* extract_text: each pass raises or reads up to MaxPages pages; a page of
\* the first pass has no text, 3, 99 or 100 characters, a page of the
\* second pass no text, 3 or 100 characters.
\* create_resume_embeddings: the text has 0, 1, 1000 or 1001 characters,
\* there are up to MaxSkills skills and up to MaxExperience descriptions of
\* 0, 500 or 501 characters; in a text no two neighbours are alike.
\* The calls of the document store: the collection holds some of the
\* documents, each as uploaded or as processed; the id is 0 (malformed) or
\* one of DocIds, stored or not.
InitCalls ==
    /\ pinecone_index = <<>>
    /\ uploads = {}
    /\ task = <<>>
    /\ created = 0
    /\ deleting = [pc |-> "idle", response |-> 0]
    /\ search = [pc |-> "idle"]
    /\ \/ /\ collection = <<>>
          /\ fb \in {[pc |-> "called", method |-> "extract_text",
                      first |-> first, second |-> second] :
                       first \in {[raised |-> TRUE]}
                                 \cup {[raised |-> FALSE, pages |-> ps] :
                                         ps \in UNION {[1..n -> {[k \in 1..len |-> "x"] :
                                                                   len \in {0, 3, 99, 100}}] :
                                                       n \in 0..MaxPages}},
                       second \in {[raised |-> TRUE]}
                                  \cup {[raised |-> FALSE, pages |-> ps] :
                                          ps \in UNION {[1..n -> {[k \in 1..len |-> "y"] :
                                                                    len \in {0, 3, 100}}] :
                                                        n \in 0..MaxPages}}}
       \/ /\ collection \in UNION {[ids -> {UploadedResume} \cup
                                           {ProcessedResume(d) : d \in DocIds}] :
                                     ids \in SUBSET DocIds}
          /\ fb \in {[pc |-> "called", method |-> method, resume_id |-> resume_id,
                      db_ok |-> db_ok, update_data |-> update_data] :
                       method \in {"get_resume", "update_resume", "delete_resume"},
                       resume_id \in 0..MaxUploads, db_ok \in BOOLEAN,
                       update_data \in {[status |-> FAILED],
                                        [status |-> PROCESSED]}}
       \/ /\ collection = <<>>
          /\ LET TextOfLen(n) == [k \in 1..n |-> IF k % 2 = 1 THEN "a" ELSE "b"]
             IN  fb \in {[pc |-> "called", method |-> "create_resume_embeddings",
                          resume_text |-> TextOfLen(n), skills |-> skills,
                          experience |-> experience, batch_ok |-> batch_ok] :
                           n \in {0, 1, TextChunkLen, TextChunkLen + 1},
                           skills \in UNION {[1..m -> {<<"g", "o">>,
                                                       <<"s", "q", "l">>}] :
                                               m \in 0..MaxSkills},
                           experience \in
                               UNION {[1..m -> {TextOfLen(len) :
                                                  len \in {0, ExperienceChunkLen,
                                                           ExperienceChunkLen + 1}}] :
                                        m \in 0..MaxExperience},
                           batch_ok \in BOOLEAN}

NextCalls ==
    \/ extract_text_call
    \/ database_call
    \/ create_resume_embeddings_call

SpecCalls == InitCalls /\ [][NextCalls]_vars

(***************************************************************************)
(* services/database.py: connect, disconnect, is_connected.  Here fb is    *)
(* the DatabaseService object: its _connected flag, its client and its     *)
(* database handle (None, or the handle made by the n-th call), and the     *)
(* calls made on it so far.                                                *)
(***************************************************************************)
MaxCalls == 5

\* lines 53-55
is_connected(service) ==
    service.connected /\ service.client # PyNone /\ service.database # PyNone

\* Variant: the except block of connect logs and raises without resetting.
connect_unreset(outcome) ==
    /\ fb.pc = "service" /\ Len(fb.calls) < MaxCalls
    /\ fb' = IF is_connected(fb)
             THEN [fb EXCEPT !.calls = Append(@, "connect, already connected")]
             ELSE IF outcome = "client_raises"
             THEN [fb EXCEPT !.calls = Append(@, "connect raised")]
             ELSE IF outcome = "ping_raises"
             THEN [fb EXCEPT !.client = [type |-> "client", n |-> Len(fb.calls)],
                             !.database = [type |-> "database", n |-> Len(fb.calls)],
                             !.calls = Append(@, "connect raised")]
             ELSE IF outcome = "ping_cancelled"
             THEN [fb EXCEPT !.client = [type |-> "client", n |-> Len(fb.calls)],
                             !.database = [type |-> "database", n |-> Len(fb.calls)],
                             !.calls = Append(@, "connect cancelled")]
             ELSE IF outcome = "indexes_cancelled"
             THEN [fb EXCEPT !.connected = TRUE,
                             !.client = [type |-> "client", n |-> Len(fb.calls)],
                             !.database = [type |-> "database", n |-> Len(fb.calls)],
                             !.calls = Append(@, "connect cancelled")]
             ELSE [fb EXCEPT !.connected = TRUE,
                             !.client = [type |-> "client", n |-> Len(fb.calls)],
                             !.database = [type |-> "database", n |-> Len(fb.calls)],
                             !.calls = Append(@, "connect")]
    /\ UNCHANGED <<collection, pinecone_index, uploads, task, created, deleting, search>>

\* lines 19-42: connect.  A connected service returns at once; otherwise a
\* client and a database handle are made and the server is pinged.  When
\* making the client or the ping raises, the except block resets the three
\* attributes and raises again; _create_indexes catches its own exceptions.
\* The except block catches Exception only: a call cancelled while it
\* awaits the ping (line 30) or the indexes (line 35) leaves the attributes
\* as they are at that line.
connect(outcome) ==
    /\ fb.pc = "service" /\ Len(fb.calls) < MaxCalls
    /\ fb' = IF is_connected(fb)
             THEN [fb EXCEPT !.calls = Append(@, "connect, already connected")]
             ELSE IF outcome \in {"client_raises", "ping_raises"}
             THEN [fb EXCEPT !.connected = FALSE,
                             !.client = PyNone,
                             !.database = PyNone,
                             !.calls = Append(@, "connect raised")]
             ELSE IF outcome = "ping_cancelled"
             THEN [fb EXCEPT !.client = [type |-> "client", n |-> Len(fb.calls)],
                             !.database = [type |-> "database", n |-> Len(fb.calls)],
                             !.calls = Append(@, "connect cancelled")]
             ELSE IF outcome = "indexes_cancelled"
             THEN [fb EXCEPT !.connected = TRUE,
                             !.client = [type |-> "client", n |-> Len(fb.calls)],
                             !.database = [type |-> "database", n |-> Len(fb.calls)],
                             !.calls = Append(@, "connect cancelled")]
             ELSE [fb EXCEPT !.connected = TRUE,
                             !.client = [type |-> "client", n |-> Len(fb.calls)],
                             !.database = [type |-> "database", n |-> Len(fb.calls)],
                             !.calls = Append(@, "connect")]
    /\ UNCHANGED <<collection, pinecone_index, uploads, task, created, deleting, search>>

\* lines 44-51: disconnect closes the client, if there is one, and resets
disconnect ==
    /\ fb.pc = "service" /\ Len(fb.calls) < MaxCalls
    /\ fb' = IF fb.client # PyNone
             THEN [fb EXCEPT !.connected = FALSE,
                             !.client = PyNone,
                             !.database = PyNone,
                             !.calls = Append(@, "disconnect")]
             ELSE [fb EXCEPT !.calls = Append(@, "disconnect")]
    /\ UNCHANGED <<collection, pinecone_index, uploads, task, created, deleting, search>>

\* what a call of connect can meet
ConnectOutcomes ==
    {"ok", "client_raises", "ping_raises", "ping_cancelled", "indexes_cancelled"}

\* lines 14-17: __init__
InitService ==
    /\ collection = <<>>
    /\ pinecone_index = <<>>
    /\ uploads = {}
    /\ task = <<>>
    /\ created = 0
    /\ deleting = [pc |-> "idle", response |-> 0]
    /\ search = [pc |-> "idle"]
    /\ fb = [pc |-> "service", connected |-> FALSE, client |-> PyNone,
             database |-> PyNone, calls |-> <<>>]

SpecService ==
    InitService
    /\ [][\/ \E outcome \in ConnectOutcomes : connect(outcome)
          \/ disconnect]_vars

(***************************************************************************)
(* tasks/processing.py: cleanup_old_files_task on its own.  Here uploads   *)
(* is the upload directory as the task meets it: a file has a name, ends   *)
(* in .pdf or not, has an age in seconds, and the file system lets         *)
(* os.path.getctime and os.remove succeed on it or not (a file removed by  *)
(* a worker after the listing, a dangling link, a directory entry that may *)
(* not be unlinked).                                                       *)
(***************************************************************************)
MaxFiles == 3

\* line 162: the retention, in seconds
Retention == 86400

\* lines 156-169: the loop over the listing; files is the directory so far
RECURSIVE cleanup_old_files(_, _, _)
cleanup_old_files(listing, files, cleaned_count) ==
    IF listing = <<>>
    THEN [raised |-> FALSE, files |-> files, cleaned_count |-> cleaned_count]
    ELSE IF ~Head(listing).pdf
    THEN cleanup_old_files(Tail(listing), files, cleaned_count)
    ELSE IF ~Head(listing).stat_ok
    THEN [raised |-> TRUE, files |-> files, cleaned_count |-> cleaned_count]
    ELSE IF Head(listing).age > Retention
    THEN IF Head(listing).remove_ok
         THEN cleanup_old_files(Tail(listing), files \ {Head(listing)},
                                cleaned_count + 1)
         ELSE cleanup_old_files(Tail(listing), files, cleaned_count)
    ELSE cleanup_old_files(Tail(listing), files, cleaned_count)

\* the directories: up to MaxFiles files, each of any kind
InitSweep ==
    /\ collection = <<>>
    /\ pinecone_index = <<>>
    /\ uploads \in UNION {{{[name |-> n] @@ files[n] : n \in 1..k} :
                             files \in [1..k -> [pdf : BOOLEAN,
                                                 age : {Retention, Retention + 1},
                                                 stat_ok : BOOLEAN,
                                                 remove_ok : BOOLEAN]]} :
                          k \in 0..MaxFiles}
    /\ task = <<>>
    /\ created = 0
    /\ deleting = [pc |-> "idle", response |-> 0]
    /\ search = [pc |-> "idle"]
    /\ fb = [pc |-> "idle"]

\* cleanup_old_files_task: os.listdir gives the files in some order
cleanup_old_files_task ==
    /\ fb.pc = "idle"
    /\ \E listing \in [1..Cardinality(uploads) -> uploads] :
          /\ {listing[k] : k \in 1..Len(listing)} = uploads
          /\ uploads' = cleanup_old_files(listing, uploads, 0).files
          /\ fb' = [pc |-> "returned", before |-> uploads, listing |-> listing,
                    result |-> cleanup_old_files(listing, uploads, 0)]
    /\ UNCHANGED <<collection, pinecone_index, task, created, deleting, search>>

SpecSweep == InitSweep /\ [][cleanup_old_files_task]_vars

(***************************************************************************)
(* Properties of the ingestion system (Spec)                               *)
(***************************************************************************)
\* C1: a stored document's status changes only from PROCESSING to PROCESSED
\* or from PROCESSING to FAILED; a PROCESSED or FAILED document keeps its
\* status in every later step of any unit of work.
C1_StatusOnlyLeavesProcessing ==
    [][\A d \in DOMAIN collection :
          (d \in DOMAIN collection' /\ collection'[d].status # collection[d].status)
          => /\ collection[d].status = PROCESSING
             /\ collection'[d].status \in {PROCESSED, FAILED}]_vars

\* C1 witness: a unit of work has run to its end and its document is
\* PROCESSED, while the unit of another document ended with FAILED.
C1_Witness ==
    \E d, f \in DOMAIN collection :
        /\ d \in DOMAIN task /\ task[d].pc = "done"
        /\ collection[d].status = PROCESSED
        /\ f \in DOMAIN task /\ task[f].pc = "done"
        /\ collection[f].status = FAILED

\* add_vector reported success to the unit of work of d
UpsertReportedSuccess(d) ==
    d \in DOMAIN task /\ "Added vector to Pinecone" \in task[d].log

\* C2: a stored document has a vector_id exactly when its status is
\* PROCESSED and the vector upsert of its unit of work reported success.
C2_VectorIdIffProcessedAndUpserted ==
    \A d \in DOMAIN collection :
        HasField(collection[d], "vector_id")
        <=> (collection[d].status = PROCESSED /\ UpsertReportedSuccess(d))

\* C2 witness: one document is PROCESSED with its vector_id; the upsert of
\* another failed and that document is FAILED without a vector_id.
C2_Witness ==
    \E d, f \in DOMAIN collection :
        /\ collection[d].status = PROCESSED
        /\ HasField(collection[d], "vector_id")
        /\ collection[d].vector_id = VectorId(d)
        /\ collection[f].status = FAILED
        /\ f \in DOMAIN task /\ "Failed to add to Pinecone" \in task[f].log
        /\ ~HasField(collection[f], "vector_id")

\* C3: a stored document has content, and has metadata, exactly when its
\* status is PROCESSED; a PROCESSED document has content, metadata and
\* vector_id together.
C3_ContentIffProcessed ==
    \A d \in DOMAIN collection :
        /\ HasField(collection[d], "content") <=> collection[d].status = PROCESSED
        /\ HasField(collection[d], "metadata") <=> collection[d].status = PROCESSED
        /\ collection[d].status = PROCESSED => HasField(collection[d], "vector_id")

\* C3 witness: a PROCESSED document with content and metadata beside a
\* document whose unit has ended and that has neither.
C3_Witness ==
    \E d, f \in DOMAIN collection :
        /\ collection[d].status = PROCESSED
        /\ HasField(collection[d], "content")
        /\ HasField(collection[d], "metadata")
        /\ f \in DOMAIN task /\ task[f].pc = "done"
        /\ collection[f].status # PROCESSED
        /\ ~HasField(collection[f], "content")

\* C4: a stored document whose status is FAILED has an error_message and no
\* content, and the step that makes it FAILED is the step that writes the
\* error_message.
C4_FailedHasErrorAndNoContent ==
    /\ [](\A d \in DOMAIN collection :
             collection[d].status = FAILED
             => /\ HasField(collection[d], "error_message")
                /\ ~HasField(collection[d], "content"))
    /\ [][\A d \in DOMAIN collection :
             d \in DOMAIN collection'
             => ((collection[d].status # FAILED /\ collection'[d].status = FAILED)
                 <=> (~HasField(collection[d], "error_message")
                      /\ HasField(collection'[d], "error_message")))]_vars

\* C4 witness: a FAILED document that carries the message of the exception
\* its unit of work ended with.
C4_Witness ==
    \E d \in DOMAIN collection :
        /\ collection[d].status = FAILED
        /\ d \in DOMAIN task /\ task[d].pc = "done"
        /\ task[d].result.status = "failure"
        /\ collection[d].error_message = task[d].result.exc

\* C8, as stated: whatever the LLM call does, the field extraction binds a
\* content record and the unit goes on to the embedding; the stage never
\* sends the unit to the except block.
C8_ExtractFieldsNeverFails ==
    [][\A d \in DOMAIN task :
          (task[d].pc = "extract_fields" /\ task'[d].pc # "extract_fields")
          => /\ task'[d].pc = "embed"
             /\ HasField(task'[d], "content")]_vars

\* the LLM call of the unit of d raised
LLMRaised(d) == "OpenAI structured output API call failed" \in task[d].log

\* text extraction, embedding, vector upsert and the update to PROCESSED of
\* the unit of d all succeeded
OtherStagesSucceeded(d) ==
    /\ task[d].log \cap {"Failed to extract text from PDF",
                         "Failed to create resume embeddings",
                         "Failed to add to Pinecone",
                         "Failed to update resume"} = {}
    /\ task[d].result.status = "failure"
       => task[d].result.exc # "Failed to update resume in database"

\* C9: a unit of work whose LLM call raised and whose other stages all
\* succeeded ends with success, and its document, unless deleted since, is
\* PROCESSED with a vector_id and the content of the fallback record.
C9_LLMErrorStillProcessed ==
    \A d \in DOMAIN task :
        (task[d].pc = "done" /\ LLMRaised(d) /\ OtherStagesSucceeded(d))
        => /\ task[d].result.status = "success"
           /\ "Using fallback extraction method" \in task[d].log
           /\ d \in DOMAIN collection
              => /\ collection[d].status = PROCESSED
                 /\ HasField(collection[d], "vector_id")
                 /\ collection[d].content.experience = <<>>
                 /\ collection[d].content.education = <<>>
                 /\ collection[d].content.contact_info.email
                    = PyStr(search_email(collection[d].content.text))

\* C9 witness: such a unit has ended and its document is PROCESSED with the
\* email the fallback found in the text.
C9_Witness ==
    \E d \in DOMAIN task :
        /\ task[d].pc = "done" /\ LLMRaised(d) /\ OtherStagesSucceeded(d)
        /\ d \in DOMAIN collection
        /\ collection[d].status = PROCESSED
        /\ collection[d].content.contact_info.email.value # <<>>

(***************************************************************************)
(* Properties of the search next to ingestion and deletes (SpecSearch)     *)
(***************************************************************************)
\* the record the next hit of the running search points to is stored and
\* PROCESSED
HitIsProcessed ==
    LET resume_id == search.vector_matches[search.i].metadata.resume_id
    IN  resume_id \in DOMAIN collection /\ collection[resume_id].status = PROCESSED

\* the ids of a list of matches
MatchIds(matches) == {matches[k].id : k \in 1..Len(matches)}

\* C5: a turn of the search loop appends a match only for a hit whose
\* record is stored and PROCESSED at the moment of the fetch; a hit whose
\* record is absent, PROCESSING or FAILED is passed over and the loop goes
\* on; the response holds the appended matches and no others.
C5_OnlyProcessedMatches ==
    [][/\ (search.pc = "fetch" /\ search'.pc = "fetch" /\ search' # search)
          => /\ search'.i = search.i + 1
             /\ IF HitIsProcessed
                THEN search'.resume_matches
                     = Append(search.resume_matches,
                              ResumeMatch(search.vector_matches[search.i].metadata.resume_id,
                                          collection[search.vector_matches[search.i].metadata.resume_id],
                                          search.vector_matches[search.i].score))
                ELSE search'.resume_matches = search.resume_matches
       /\ (search.pc = "fetch" /\ search'.pc = "done"
           /\ search.i <= Len(search.vector_matches))
          => search'.response.status_code = 500
       /\ (search.pc = "fetch" /\ search'.pc = "done"
           /\ search.i > Len(search.vector_matches))
          => /\ search'.response.status_code = 200
             /\ MatchIds(search'.response.matches) = MatchIds(search.resume_matches)
             /\ Len(search'.response.matches) = Len(search.resume_matches)]_vars

\* C5 witness: the loop has passed over a hit whose record is stored but
\* not PROCESSED, has kept another, and goes on.
C5_Witness ==
    /\ search.pc = "fetch"
    /\ search.i = 3
    /\ Len(search.resume_matches) = 1
    /\ \E k \in 1..2 :
          LET resume_id == search.vector_matches[k].metadata.resume_id
          IN  /\ resume_id \in DOMAIN collection
              /\ collection[resume_id].status # PROCESSED
              /\ resume_id \notin MatchIds(search.resume_matches)

(***************************************************************************)
(* Properties of the ranking (SpecRank)                                    *)
(***************************************************************************)
\* the search returns its response
SearchReturns ==
    /\ search.pc = "fetch"
    /\ search.i > Len(search.vector_matches)
    /\ search'.pc = "done"

SortedDescending(matches) ==
    \A a, b \in 1..Len(matches) :
        a < b => matches[a].similarity_score >= matches[b].similarity_score

\* C6: every match of a response has a similarity_score of at least the
\* request's min_similarity, and the matches are in non-increasing order of
\* similarity_score; they are the hits the index query gave at or above the
\* threshold.
C6_ThresholdAndOrder ==
    [][SearchReturns
       => /\ \A k \in 1..Len(search'.response.matches) :
                search'.response.matches[k].similarity_score >= search.min_similarity
          /\ SortedDescending(search'.response.matches)
          /\ search'.response.total_matches = Len(search.vector_matches)
          /\ \A m \in 1..Len(search.vector_matches) :
                \E k \in 1..Len(search'.response.matches) :
                   /\ search'.response.matches[k].id
                      = search.vector_matches[m].metadata.resume_id
                   /\ search'.response.matches[k].similarity_score
                      = search.vector_matches[m].score]_vars

\* C6 witness: a response of two matches in descending order of score,
\* which is not the order of their record ids.
C6_Witness ==
    /\ search.pc = "done"
    /\ search.response.status_code = 200
    /\ Len(search.response.matches) = 2
    /\ search.response.matches[1].similarity_score
       > search.response.matches[2].similarity_score
    /\ search.response.matches[1].id > search.response.matches[2].id

\* the place of the hit of record resume_id in the index's answer
HitPosition(vector_matches, resume_id) ==
    CHOOSE k \in 1..Len(vector_matches) :
        vector_matches[k].metadata.resume_id = resume_id

\* C7: two matches of a response with equal similarity_score are in the
\* order in which the vector index returned their hits.
C7_StableSort ==
    [][SearchReturns
       => \A a, b \in 1..Len(search'.response.matches) :
             (/\ a < b
              /\ search'.response.matches[a].similarity_score
                 = search'.response.matches[b].similarity_score)
             => HitPosition(search.vector_matches, search'.response.matches[a].id)
                < HitPosition(search.vector_matches, search'.response.matches[b].id)]_vars

\* C7 witness: a response in which a lower score was returned by the index
\* before two equal higher ones, which keep their places relative to each
\* other although the record ids are in the other order.
C7_Witness ==
    /\ search.pc = "done"
    /\ search.response.status_code = 200
    /\ Len(search.response.matches) = 3
    /\ search.response.matches[1].similarity_score
       = search.response.matches[2].similarity_score
    /\ search.response.matches[2].similarity_score
       > search.response.matches[3].similarity_score
    /\ search.response.matches[1].id > search.response.matches[2].id

(***************************************************************************)
(* Properties of _fallback_extraction (SpecFallback)                       *)
(***************************************************************************)
\* text[i..j] has the shape of email_pattern: a local part, "@", a domain
\* part, ".", a top-level part of two or more, between word boundaries
EmailLike(text, i, j) ==
    /\ WordBoundary(text, i)
    /\ WordBoundary(text, j + 1)
    /\ \E at \in {k \in (i + 1)..(j - 4) : text[k] = "@"} :
          /\ \A k \in i..(at - 1) : text[k] \in EmailLocalChars
          /\ \E dot \in {k \in (at + 2)..(j - 2) : text[k] = "."} :
                /\ \A k \in (at + 1)..(dot - 1) : text[k] \in EmailDomainChars
                /\ \A k \in (dot + 1)..j : text[k] \in EmailTldChars

EmailLikeStarts(text) ==
    {i \in 1..Len(text) : \E j \in i..Len(text) : EmailLike(text, i, j)}

FallbackFields == {"skills", "experience", "education", "contact_info", "summary"}

\* C10: the fallback returns, for every text, a record of the five fields
\* whose contact_info holds email, phone and linkedin as strings; experience
\* and education are empty; email is an email-like piece of the text that
\* starts where the first such piece starts, and is empty when the text has
\* none.
C10_FallbackTotal ==
    fb.pc = "returned"
    => /\ ~fb.result.raised
       /\ DOMAIN fb.result.ret = FallbackFields
       /\ DOMAIN fb.result.ret.contact_info = {"email", "phone", "linkedin"}
       /\ \A k \in DOMAIN fb.result.ret.contact_info :
             fb.result.ret.contact_info[k].type = "str"
       /\ fb.result.ret.experience = <<>>
       /\ fb.result.ret.education = <<>>
       /\ IF EmailLikeStarts(fb.text) = {}
          THEN fb.result.ret.contact_info.email.value = <<>>
          ELSE \E j \in 1..Len(fb.text) :
                  /\ EmailLike(fb.text, MinOf(EmailLikeStarts(fb.text)), j)
                  /\ fb.result.ret.contact_info.email.value
                     = SubSeq(fb.text, MinOf(EmailLikeStarts(fb.text)), j)

\* C10 witness: the fallback returned for a text with two email-like pieces
\* at different places and a phone number.
C10_Witness ==
    /\ fb.pc = "returned"
    /\ ~fb.result.raised
    /\ Cardinality(EmailLikeStarts(fb.text)) >= 2
    /\ fb.result.ret.contact_info.email.value # <<>>
    /\ fb.result.ret.contact_info.phone.value # <<>>

(***************************************************************************)
(* Properties of the failure path of the unit of work (Spec)               *)
(***************************************************************************)
\* the unit of d is in, or has left through, the except block
InExcept(d) ==
    \/ task[d].pc \in {"fail_write", "fail_cleanup"}
    \/ task[d].pc = "done" /\ task[d].result.status = "failure"

\* the exception the except block of the unit of d caught
Caught(d) == IF task[d].pc = "done" THEN task[d].result.exc ELSE task[d].e

\* the FAILED update of the unit of d was made and did not raise
FailedWriteReturned(d) ==
    /\ InExcept(d)
    /\ task[d].pc # "fail_write"
    /\ "Failed to update resume status" \notin task[d].log

\* add_vector reported failure to the unit of work of d
UpsertReportedFailure(d) == "Failed to add to Pinecone" \in task[d].log

\* C11, as stated: a unit whose vector upsert reported failure ends with its
\* document, when still stored, FAILED with an error message and without a
\* vector_id.
C11_UpsertFailureEndsFailed ==
    \A d \in DOMAIN task :
        (task[d].pc = "done" /\ UpsertReportedFailure(d) /\ d \in DOMAIN collection)
        => /\ collection[d].status = FAILED
           /\ HasField(collection[d], "error_message")
           /\ ~HasField(collection[d], "vector_id")

\* C11, amended: a unit whose vector upsert reported failure is in the
\* except block with the exception "Failed to store vector in database";
\* checkpoint 3 is not published and the PROCESSED update is not made, so
\* the stored document is never PROCESSED and never has a vector_id; it is
\* FAILED with that message once the FAILED update has returned, and is
\* still PROCESSING when that update raised.
C11_UpsertFailureTakesFailedPath ==
    \A d \in DOMAIN task :
        UpsertReportedFailure(d)
        => /\ InExcept(d)
           /\ Caught(d) = "Failed to store vector in database"
           /\ task[d].published = <<0, 1, 2>>
           /\ ~HasField(task[d], "db_success")
           /\ d \in DOMAIN collection
              => /\ ~HasField(collection[d], "vector_id")
                 /\ ~HasField(collection[d], "content")
                 /\ IF FailedWriteReturned(d)
                    THEN /\ collection[d].status = FAILED
                         /\ collection[d].error_message
                            = "Failed to store vector in database"
                    ELSE collection[d].status = PROCESSING

\* C11 witness: such a unit has ended and its document is FAILED with the
\* message of the upsert failure.
C11_Witness ==
    \E d \in DOMAIN task :
        /\ task[d].pc = "done" /\ UpsertReportedFailure(d)
        /\ d \in DOMAIN collection
        /\ collection[d].status = FAILED
        /\ collection[d].error_message = "Failed to store vector in database"
        /\ d \notin uploads

\* the PROCESSED update of the unit of d returned False, or raised
PersistReportedFailure(d) ==
    \/ HasField(task[d], "db_success") /\ ~task[d].db_success
    \/ InExcept(d) /\ Caught(d) \in {"Failed to update resume in database",
                                     "database error"}

\* C12, as stated: a unit whose PROCESSED update returned False or raised
\* ends with its document, when still stored, FAILED.
C12_PersistFailureEndsFailed ==
    \A d \in DOMAIN task :
        (task[d].pc = "done" /\ PersistReportedFailure(d) /\ d \in DOMAIN collection)
        => collection[d].status = FAILED

\* C12, amended: a unit whose PROCESSED update returned False or raised is
\* in the except block with that failure as its exception.  When the update
\* returned False the record is not stored, and nothing is written.  When
\* it raised, the stored document has no content and no vector_id; it is
\* FAILED with the exception's message once the FAILED update has returned,
\* and is still PROCESSING when that update raised too.
C12_PersistFailureTakesFailedPath ==
    \A d \in DOMAIN task :
        PersistReportedFailure(d)
        => /\ InExcept(d)
           /\ Caught(d) \in {"Failed to update resume in database", "database error"}
           /\ Caught(d) = "Failed to update resume in database"
              => d \notin DOMAIN collection
           /\ d \in DOMAIN collection
              => /\ ~HasField(collection[d], "vector_id")
                 /\ ~HasField(collection[d], "content")
                 /\ IF FailedWriteReturned(d)
                    THEN /\ collection[d].status = FAILED
                         /\ collection[d].error_message = "database error"
                    ELSE collection[d].status = PROCESSING

\* C12 witness: the PROCESSED update raised, the FAILED update went through
\* and the unit has ended.
C12_Witness ==
    \E d \in DOMAIN task :
        /\ task[d].pc = "done" /\ PersistReportedFailure(d)
        /\ UpsertReportedSuccess(d)
        /\ d \in DOMAIN collection
        /\ collection[d].status = FAILED
        /\ collection[d].error_message = "database error"

\* text extraction or the embedding of the unit of d raised
ExtractOrEmbedRaised(d) ==
    task[d].log \cap {"Failed to extract text from PDF",
                      "Failed to create resume embeddings"} # {}

\* C13, as stated: a unit whose text extraction or embedding raised ends
\* with its document, when still stored, FAILED with an error message and
\* without a vector_id.
C13_StageErrorEndsFailed ==
    \A d \in DOMAIN task :
        (task[d].pc = "done" /\ ExtractOrEmbedRaised(d) /\ d \in DOMAIN collection)
        => /\ collection[d].status = FAILED
           /\ HasField(collection[d], "error_message")
           /\ ~HasField(collection[d], "vector_id")

\* C13, amended: a unit whose text extraction or embedding raised is in the
\* except block with that error; add_vector is not called, so the index
\* holds no vector of the document, and the stored document has no
\* vector_id; it is FAILED with the error's message once the FAILED update
\* has returned, and is still PROCESSING when that update raised.
C13_StageErrorTakesFailedPath ==
    \A d \in DOMAIN task :
        ExtractOrEmbedRaised(d)
        => /\ InExcept(d)
           /\ Caught(d) \in {"pdf error", "embedding error"}
           /\ ~UpsertReportedSuccess(d) /\ ~UpsertReportedFailure(d)
           /\ VectorId(d) \notin DOMAIN pinecone_index
           /\ 2 \notin {task[d].published[k] : k \in 1..Len(task[d].published)}
           /\ d \in DOMAIN collection
              => /\ ~HasField(collection[d], "vector_id")
                 /\ IF FailedWriteReturned(d)
                    THEN /\ collection[d].status = FAILED
                         /\ collection[d].error_message = Caught(d)
                    ELSE collection[d].status = PROCESSING

\* C13 witness: the embedding of one unit raised and the text extraction of
\* another; both have ended and both documents are FAILED with the message.
C13_Witness ==
    \E d, f \in DOMAIN task :
        /\ task[d].pc = "done" /\ task[f].pc = "done"
        /\ "Failed to create resume embeddings" \in task[d].log
        /\ "Failed to extract text from PDF" \in task[f].log
        /\ d \in DOMAIN collection /\ f \in DOMAIN collection
        /\ collection[d].status = FAILED
        /\ collection[d].error_message = "embedding error"
        /\ collection[f].status = FAILED
        /\ collection[f].error_message = "pdf error"

\* the step with which the unit of d ends
Ends(d) == /\ d \in DOMAIN task /\ task[d].pc # "done"
           /\ task'[d].pc = "done"

\* C14: when a unit of work has ended, on success or after a failure
\* (also when the FAILED update raised), its uploaded file is gone unless
\* its removal failed, which is logged; and the step that removes the file
\* changes no document, and the unit's outcome is the one fixed before the
\* removal: success with the vector id after the update to PROCESSED, the
\* caught exception otherwise.
C14_CleanupAlwaysAttempted ==
    /\ [](\A d \in DOMAIN task :
            task[d].pc = "done"
            => \/ task[d].pdf_path \notin uploads
               \/ "Failed to clean up PDF file" \in task[d].log)
    /\ [][\A d \in DOMAIN task :
            Ends(d)
            => /\ task[d].pc \in {"cleanup", "fail_cleanup"}
               /\ collection' = collection
               /\ task'[d].result =
                    IF task[d].pc = "cleanup"
                    THEN [status |-> "success",
                          resume_id |-> task[d].resume_id,
                          vector_id |-> task[d].vector_id]
                    ELSE [status |-> "failure", exc |-> task[d].e]]_vars

\* C14 witness: one unit failed, its FAILED update raised and its file is
\* gone; the removal of the other unit's file failed, and that unit
\* succeeded with its document PROCESSED
C14_Witness ==
    \E d, f \in DOMAIN task :
        /\ task[d].pc = "done" /\ task[d].result.status = "failure"
        /\ "Failed to update resume status" \in task[d].log
        /\ task[d].pdf_path \notin uploads
        /\ task[f].pc = "done" /\ task[f].result.status = "success"
        /\ "Failed to clean up PDF file" \in task[f].log
        /\ task[f].pdf_path \in uploads
        /\ f \in DOMAIN collection /\ collection[f].status = PROCESSED

\* the stages of the try block
TryStages == {"extract_text", "extract_fields", "embed", "upsert", "persist"}

\* what the FAILED update of the unit of d writes when it is applied
FailedWritten(coll, d) ==
    IF d \in DOMAIN coll
    THEN [coll EXCEPT ![d] = [status |-> FAILED, error_message |-> task[d].e]
                             @@ coll[d]]
    ELSE coll

\* C15: the except block is entered from a stage of the try block and makes
\* one update to FAILED with the caught error as error_message: every step
\* of a unit in the except block before the removal is that update and
\* leads to the removal of the file, which ends the unit, so the update is
\* never made again; only that step makes a document FAILED.  When the
\* update raised this is logged, no document changes, and a stored document
\* is still PROCESSING when the unit has ended with its file removed or the
\* failed removal logged.
C15_OneBestEffortFailedWrite ==
    /\ [][\A d \in DOMAIN task :
            /\ (task'[d].pc = "fail_write" /\ task'[d] # task[d])
               => task[d].pc \in TryStages
            /\ (task[d].pc = "fail_write" /\ task'[d] # task[d])
               => /\ task'[d].pc = "fail_cleanup"
                  /\ IF "Failed to update resume status" \in task'[d].log
                     THEN collection' = collection
                     ELSE collection' = FailedWritten(collection, d)
            /\ (task[d].pc = "fail_cleanup" /\ task'[d] # task[d])
               => /\ task'[d].pc = "done"
                  /\ collection' = collection
            /\ (task[d].pc = "done") => task'[d] = task[d]
            /\ (/\ d \in DOMAIN collection /\ d \in DOMAIN collection'
                /\ collection[d].status # FAILED
                /\ collection'[d].status = FAILED)
               => task[d].pc = "fail_write"]_vars
    /\ [](\A d \in DOMAIN task :
            (/\ "Failed to update resume status" \in task[d].log
             /\ d \in DOMAIN collection)
            => /\ collection[d].status = PROCESSING
               /\ ~HasField(collection[d], "error_message")
               /\ task[d].pc \in {"fail_cleanup", "done"}
               /\ task[d].pc = "done"
                  => \/ task[d].pdf_path \notin uploads
                     \/ "Failed to clean up PDF file" \in task[d].log)

\* C15 witness: the FAILED update of one unit raised, the unit ended with
\* its file removed and its document is still PROCESSING; the FAILED update
\* of the other unit was applied
C15_Witness ==
    \E d, f \in DOMAIN task :
        /\ task[d].pc = "done"
        /\ "Failed to update resume status" \in task[d].log
        /\ task[d].pdf_path \notin uploads
        /\ d \in DOMAIN collection /\ collection[d].status = PROCESSING
        /\ task[f].pc = "done" /\ task[f].result.status = "failure"
        /\ "Failed to update resume status" \notin task[f].log
        /\ f \in DOMAIN collection /\ collection[f].status = FAILED
        /\ collection[f].error_message = task[f].result.exc

\* the position of a stage in the one pass a unit of work makes
StageRank(pc) ==
    CASE pc = "queued" -> 0
      [] pc = "extract_text" -> 1
      [] pc = "extract_fields" -> 2
      [] pc = "embed" -> 3
      [] pc = "upsert" -> 4
      [] pc = "persist" -> 5
      [] pc = "cleanup" -> 6
      [] pc = "fail_write" -> 7
      [] pc = "fail_cleanup" -> 8
      [] pc = "done" -> 9

\* C16: there is no retry.  A task is queued once, by the upload that
\* created its record under a fresh id; every step of a unit of work moves
\* it to a later stage, so each stage is attempted at most once and an
\* ended unit never runs again; and a document that is FAILED has no
\* content and no vector_id and is not changed by any step that leaves it
\* stored.
C16_NoRetryFailedIsTerminal ==
    [][/\ \A d \in DOMAIN task :
            /\ d \in DOMAIN task'
            /\ task'[d] # task[d]
               => StageRank(task'[d].pc) > StageRank(task[d].pc)
       /\ \A d \in DOMAIN task' \ DOMAIN task :
            /\ d = created + 1 /\ created' = d
            /\ task'[d].pc = "queued"
       /\ \A d \in DOMAIN collection :
            collection[d].status = FAILED
            => /\ ~HasField(collection[d], "content")
               /\ ~HasField(collection[d], "vector_id")
               /\ d \in DOMAIN collection' => collection'[d] = collection[d]]_vars

\* C16 witness: a unit failed in the embedding, has ended, and its FAILED
\* document is still there while the unit of a later upload is running
C16_Witness ==
    \E d, f \in DOMAIN task :
        /\ d < f
        /\ task[d].pc = "done" /\ task[d].result.status = "failure"
        /\ task[d].published = <<0, 1>>
        /\ d \in DOMAIN collection /\ collection[d].status = FAILED
        /\ task[f].pc \in TryStages

\* the unit of d publishes checkpoint c in this step
Publishes(d, c) == task'[d].published = Append(task[d].published, c)

IsPrefix(s, t) == /\ Len(s) <= Len(t)
                  /\ \A k \in 1..Len(s) : s[k] = t[k]

\* C17: what a unit of work has published is always an initial part of
\* 0, 1, 2, 3.  Checkpoint 1 is published by the step in which parse_resume
\* returns, text extraction having returned before; checkpoint 2 by the step
\* in which the embedding is computed; checkpoint 3 by the step in which
\* add_vector reported success and the vector is in the index; and a unit
\* in the except block, or ended, publishes nothing.
C17_CheckpointsInOrder ==
    /\ [](\A d \in DOMAIN task : IsPrefix(task[d].published, <<0, 1, 2, 3>>))
    /\ [][\A d \in DOMAIN task :
            /\ task'[d].published # task[d].published
               => \E c \in 0..3 : Publishes(d, c)
            /\ Publishes(d, 0) => task[d].pc = "queued"
            /\ Publishes(d, 1)
               => /\ task[d].pc = "extract_fields"
                  /\ HasField(task[d], "text")
                  /\ HasField(task'[d], "content")
                  /\ task'[d].pc = "embed"
            /\ Publishes(d, 2)
               => /\ task[d].pc = "embed"
                  /\ HasField(task'[d], "embedding")
                  /\ task'[d].embedding = "avg_embedding"
                  /\ "Failed to create resume embeddings" \notin task'[d].log
                  /\ task'[d].pc = "upsert"
            /\ Publishes(d, 3)
               => /\ task[d].pc = "upsert"
                  /\ task'[d].vector_success
                  /\ "Added vector to Pinecone" \in task'[d].log
                  /\ VectorId(d) \in DOMAIN pinecone_index'
                  /\ task'[d].pc = "persist"
            /\ (InExcept(d) \/ task[d].pc = "done" \/ task'[d].pc = "fail_write")
               => task'[d].published = task[d].published]_vars

\* C17 witness: one unit has published all four checkpoints and succeeded;
\* the upsert of another failed after it had published 0, 1, 2, and it has
\* ended with nothing more published
C17_Witness ==
    \E d, f \in DOMAIN task :
        /\ task[d].pc = "done" /\ task[d].result.status = "success"
        /\ task[d].published = <<0, 1, 2, 3>>
        /\ task[f].pc = "done" /\ UpsertReportedFailure(f)
        /\ task[f].published = <<0, 1, 2>>

(***************************************************************************)
(* Properties of the vector index client (SpecClient)                      *)
(***************************************************************************)
\* C18: no method of the vector index client raises.  When the underlying
\* call raised, add_vector and delete_vector return False and search_similar
\* returns the empty list, and the index is as it was; when it did not,
\* add_vector and delete_vector return True.
C18_ClientNeverRaises ==
    fb.pc = "returned"
    => /\ pinecone_index = fb.before \/ ~fb.failed
       /\ IF fb.method = "search_similar"
          THEN /\ fb.matches \in Seq([id : DOMAIN fb.before, score : Scores,
                                      metadata : {[resume_id |-> d] : d \in DocIds}])
               /\ fb.failed => fb.matches = <<>>
          ELSE /\ ~fb.raised
               /\ fb.ret = ~fb.failed

\* C18 witness: the query raised with two vectors in the index, and
\* search_similar returned the empty list
C18_Witness ==
    /\ fb.pc = "returned" /\ fb.method = "search_similar"
    /\ fb.failed /\ fb.matches = <<>>
    /\ Cardinality(DOMAIN pinecone_index) = 2

(***************************************************************************)
(* Properties of create_chunks (SpecChunks)                                *)
(***************************************************************************)
\* the characters of s that are not whitespace, in order
NonWhitespace(s) == SelectSeq(s, LAMBDA c : c \notin Whitespace)

\* C19: for every text, no chunk of create_chunks is empty or made of
\* whitespace only, and the chunks put together in order have the
\* non-whitespace characters of the text, in the order of the text.
C19_ChunksPreserveText ==
    fb.pc = "returned"
    => /\ \A k \in 1..Len(fb.chunks) : NonWhitespace(fb.chunks[k]) # <<>>
       /\ NonWhitespace(Concat(fb.chunks)) = NonWhitespace(fb.text)

\* the part of C19 that holds: no chunk is empty or whitespace only, every
\* chunk is trimmed, and the text of a paragraph shorter than ChunkSize is
\* kept as it is
C19_NoEmptyChunk ==
    fb.pc = "returned"
    => \A k \in 1..Len(fb.chunks) :
          /\ NonWhitespace(fb.chunks[k]) # <<>>
          /\ strip(fb.chunks[k]) = fb.chunks[k]

\* C29: every chunk of create_chunks has at most ChunkSize characters, for
\* every text, a single sentence longer than ChunkSize included.
C29_ChunksBounded ==
    fb.pc = "returned"
    => \A k \in 1..Len(fb.chunks) : Len(fb.chunks[k]) <= ChunkSize

(***************************************************************************)
(* Properties of the average of the chunk embeddings (SpecAverage)         *)
(***************************************************************************)
Abs(x) == IF x < 0 THEN 0 - x ELSE x

\* the exact sum of coordinate i of the first k vectors
RECURSIVE CoordSum(_, _, _)
CoordSum(embeddings, i, k) ==
    IF k = 0 THEN 0 ELSE CoordSum(embeddings, i, k - 1) + embeddings[k][i]

\* the exact sum of the absolute values of coordinate i
RECURSIVE CoordAbsSum(_, _, _)
CoordAbsSum(embeddings, i, k) ==
    IF k = 0 THEN 0
    ELSE CoordAbsSum(embeddings, i, k - 1) + Abs(embeddings[k][i])

IsFloat(v) == float_round(v, 1) = v

\* C20, as stated: the document vector has the length of the chunk
\* embeddings and each coordinate is exactly the arithmetic mean of that
\* coordinate; n identical vectors give that vector.
C20_ExactMean ==
    fb.pc = "returned"
    => /\ Len(fb.avg_embedding) = Len(fb.embeddings[1])
       /\ \A i \in 1..Len(fb.avg_embedding) :
             Len(fb.embeddings) * fb.avg_embedding[i]
             = CoordSum(fb.embeddings, i, Len(fb.embeddings))
       /\ (\A k \in 1..Len(fb.embeddings) : fb.embeddings[k] = fb.embeddings[1])
          => fb.avg_embedding = fb.embeddings[1]

\* C20, amended: the document vector has the length of the chunk
\* embeddings; each coordinate r is a float within rounding error of the
\* arithmetic mean S/n of that coordinate: |r - S/n| is at most half the
\* smallest float spacing plus 2 * 2^-MantissaBits times the sum of the
\* absolute values; and r is the mean itself when every partial sum from
\* the left and the mean are floats.
C20_MeanUpToRounding ==
    fb.pc = "returned"
    => /\ Len(fb.avg_embedding) = Len(fb.embeddings[1])
       /\ \A i \in 1..Len(fb.avg_embedding) :
            /\ IsFloat(fb.avg_embedding[i])
            /\ Pow2(MantissaBits)
                 * Abs(Len(fb.embeddings) * fb.avg_embedding[i]
                       - CoordSum(fb.embeddings, i, Len(fb.embeddings)))
               <= Len(fb.embeddings) * Pow2(MantissaBits - 1)
                  + 2 * Len(fb.embeddings)
                      * CoordAbsSum(fb.embeddings, i, Len(fb.embeddings))
            /\ (/\ \A k \in 1..Len(fb.embeddings) :
                      IsFloat(CoordSum(fb.embeddings, i, k))
                /\ CoordSum(fb.embeddings, i, Len(fb.embeddings))
                      % Len(fb.embeddings) = 0
                /\ IsFloat(CoordSum(fb.embeddings, i, Len(fb.embeddings))
                              \div Len(fb.embeddings)))
               => Len(fb.embeddings) * fb.avg_embedding[i]
                  = CoordSum(fb.embeddings, i, Len(fb.embeddings))

\* C20 witness: three identical vectors were averaged, the sum was rounded,
\* and the average is not the vector
C20_Witness ==
    /\ fb.pc = "returned"
    /\ Len(fb.embeddings) = 3
    /\ \A k \in 1..3 : fb.embeddings[k] = fb.embeddings[1]
    /\ fb.avg_embedding # fb.embeddings[1]
    /\ ~IsFloat(CoordSum(fb.embeddings, 1, 3))

(***************************************************************************)
(* Properties of single calls (SpecCalls)                                  *)
(***************************************************************************)
\* C21: when the first pass of extract_text gives fewer than 100
\* characters, the second method is run and the text returned is what the
\* second method gave, alone; when the first pass gives at least 100
\* characters the second method is not run and the text of the first pass
\* is returned.
C21_SecondPassReplaces ==
    (fb.pc = "returned" /\ fb.method = "extract_text" /\ ~fb.first.raised)
    => IF Len(strip(pages_text(fb.first.pages))) < MinTextLength
       THEN IF fb.second.raised THEN fb.result.raised
            ELSE /\ ~fb.result.raised
                 /\ fb.result.text = strip(pages_text(fb.second.pages))
       ELSE /\ ~fb.result.raised
            /\ fb.result.text = strip(pages_text(fb.first.pages))

(***************************************************************************)
(* Properties of cleanup_old_files_task (SpecSweep)                        *)
(***************************************************************************)
\* C22: after a run of the cleanup task the directory holds the files it
\* held before except the files ending in .pdf that are older than 24
\* hours: each of those is gone unless its own removal failed (a file whose
\* age cannot be read is not counted among them); younger files and files
\* not ending in .pdf are still there.
C22_RemovesExactlyOldPdfs ==
    fb.pc = "returned"
    => uploads = {f \in fb.before :
                    ~(f.pdf /\ f.stat_ok /\ f.age > Retention /\ f.remove_ok)}

(***************************************************************************)
(* Properties of the system with a killed worker (SpecKilled)              *)
(***************************************************************************)
\* C23: a task whose worker was killed never runs again, and when its
\* document was still PROCESSING (no update to PROCESSED or FAILED had been
\* applied), no step of a search, of the periodic cleanup, of a status
\* request or of another unit of work changes the document: it is
\* PROCESSING in every later state in which it is stored.
C23_KilledStaysProcessing ==
    [][\A d \in DOMAIN task :
          task[d].pc = "killed"
          => /\ task'[d] = task[d]
             /\ (/\ d \in DOMAIN collection
                 /\ collection[d].status = PROCESSING
                 /\ d \in DOMAIN collection')
                => collection'[d] = collection[d]]_vars

\* C23 witness: the worker was killed between the upsert and the update to
\* PROCESSED; the file has been removed by the cleanup, a search has
\* answered and the status request answers "processing"
C23_Witness ==
    \E d \in DOMAIN task :
        /\ task[d].pc = "killed"
        /\ task[d].published = <<0, 1, 2, 3>>
        /\ d \in DOMAIN collection /\ collection[d].status = PROCESSING
        /\ task[d].pdf_path \notin uploads
        /\ search.pc = "done" /\ search.response.status_code = 200
        /\ fb.pc = "returned" /\ fb.status_code = 200 /\ fb.status = PROCESSING

(***************************************************************************)
(* C24: malformed ids at the document store                                *)
(***************************************************************************)
\* A call of get_resume, update_resume or delete_resume with a malformed id
\* has returned or raised.
MalformedIdCall ==
    /\ fb.pc = "returned"
    /\ fb.method \in {"get_resume", "update_resume", "delete_resume"}
    /\ InvalidId(fb.resume_id)

\* What None (get_resume) or False (update_resume, delete_resume) is in fb
AnsweredAbsent ==
    /\ ~fb.result.raised
    /\ IF fb.method = "get_resume" THEN ~fb.result.found ELSE ~fb.result.ret

\* C24 (as stated): for a malformed document id get_resume returns None and
\* update_resume and delete_resume return False, without raising and
\* without changing any stored record.
C24_MalformedIdNeverRaises ==
    MalformedIdCall => AnsweredAbsent /\ collection = fb.before

\* C24 (amended): for a malformed document id no stored record changes; the
\* call returns None (get_resume) or False (update_resume, delete_resume)
\* when the service is connected or can connect, and raises the connection
\* error otherwise, since _ensure_connection runs before the id is converted.
C24_MalformedIdChangesNothing ==
    MalformedIdCall
    => /\ collection = fb.before
       /\ fb.db_ok => AnsweredAbsent
       /\ ~fb.db_ok => fb.result.raised

\* C24 witness: update_resume with a malformed id returned False on a
\* collection that holds documents
C24_Witness ==
    /\ MalformedIdCall
    /\ fb.method = "update_resume"
    /\ fb.db_ok /\ ~fb.result.raised /\ ~fb.result.ret
    /\ DOMAIN collection = DocIds

(***************************************************************************)
(* C25, C26, C27: stages, writes and identities of a unit of work (Spec)   *)
(***************************************************************************)
\* C25: the stages of a unit of work run in the order extract text, extract
\* fields, embed, upsert, update to PROCESSED: a unit is at a stage only
\* with the results of the stages before it (the text, the content, the
\* embedding computed without error, the upsert reported as successful),
\* every step of a unit in the try block leads to the next stage or to the
\* except block, the index is written only by a unit at the upsert that
\* has its embedding, and a document becomes PROCESSED only by the step of
\* its unit at the update, after the upsert reported success.
C25_StagesInOrder ==
    /\ [](\A d \in DOMAIN task :
            /\ StageRank(task[d].pc) \in 2..6 => HasField(task[d], "text")
            /\ StageRank(task[d].pc) \in 3..6 => HasField(task[d], "content")
            /\ StageRank(task[d].pc) \in 4..6
               => /\ HasField(task[d], "embedding")
                  /\ task[d].embedding = "avg_embedding"
                  /\ "Failed to create resume embeddings" \notin task[d].log
            /\ StageRank(task[d].pc) \in 5..6
               => /\ task[d].vector_success
                  /\ "Added vector to Pinecone" \in task[d].log
            /\ task[d].pc = "cleanup" => task[d].db_success)
    /\ [][/\ \A d \in DOMAIN task :
               /\ (task[d].pc \in TryStages /\ task'[d] # task[d])
                  => \/ StageRank(task'[d].pc) = StageRank(task[d].pc) + 1
                     \/ task'[d].pc = "fail_write"
               /\ (/\ VectorId(d) \in DOMAIN pinecone_index'
                   /\ \/ VectorId(d) \notin DOMAIN pinecone_index
                      \/ pinecone_index'[VectorId(d)] # pinecone_index[VectorId(d)])
                  => /\ task[d].pc = "upsert"
                     /\ task[d].embedding = "avg_embedding"
                     /\ pinecone_index'[VectorId(d)].values = task[d].embedding
                     /\ task'[d].pc = "persist"
               /\ (/\ d \in DOMAIN collection /\ d \in DOMAIN collection'
                   /\ collection[d].status # PROCESSED
                   /\ collection'[d].status = PROCESSED)
                  => /\ task[d].pc = "persist"
                     /\ task[d].vector_success
                     /\ task'[d].pc = "cleanup"]_vars

\* C25 witness: one unit is about to make its update to PROCESSED, its
\* vector stored; another has ended because its embedding failed, and has
\* no vector
C25_Witness ==
    \E d, f \in DOMAIN task :
        /\ task[d].pc = "persist" /\ task[d].vector_success
        /\ VectorId(d) \in DOMAIN pinecone_index
        /\ task[f].pc = "done"
        /\ "Failed to create resume embeddings" \in task[f].log
        /\ VectorId(f) \notin DOMAIN pinecone_index

\* C26: a unit of work for document d writes only the document with id d
\* and the vector with id "resume_" + d.  On every step of the unit of d no
\* document is added or removed, every other document is as before, no
\* vector other than that of d is added, removed or changed, no other unit
\* moves, and no file other than the unit's own is removed.
C26_UnitWritesOwnRecords ==
    [][\A d \in DOMAIN task :
          task'[d] # task[d]
          => /\ DOMAIN collection' = DOMAIN collection
             /\ \A e \in DOMAIN collection \ {d} : collection'[e] = collection[e]
             /\ DOMAIN pinecone_index \ {<<"resume_", d>>}
                  = DOMAIN pinecone_index' \ {<<"resume_", d>>}
             /\ \A v \in DOMAIN pinecone_index \ {<<"resume_", d>>} :
                   pinecone_index'[v] = pinecone_index[v]
             /\ \A e \in DOMAIN task \ {d} : task'[e] = task[e]
             /\ uploads' \subseteq uploads
             /\ uploads \ uploads' \subseteq {task[d].pdf_path}]_vars

\* C26 witness: two units have both written their vector and their
\* document, and each document and vector is the one of its own unit
C26_Witness ==
    \E d, f \in DOMAIN task :
        /\ d # f
        /\ task[d].pc = "done" /\ task[d].result.status = "success"
        /\ task[f].pc = "cleanup"
        /\ {d, f} \subseteq DOMAIN collection
        /\ collection[d].status = PROCESSED /\ collection[f].status = PROCESSED
        /\ {<<"resume_", d>>, <<"resume_", f>>} \subseteq DOMAIN pinecone_index

\* C27: a PROCESSED document d has vector_id "resume_" + d, and the vector
\* stored under that id, while it is stored, has metadata resume_id = d:
\* every vector of the index is stored under "resume_" + its metadata's
\* resume_id, and was written by the unit of work of that document.  (The
\* vector of a PROCESSED document may be gone: a delete removes the vector
\* before the record, and the removal of the record may fail.)
C27_VectorLinksBack ==
    /\ [](/\ \A d \in DOMAIN collection :
                collection[d].status = PROCESSED
                => /\ collection[d].vector_id = <<"resume_", d>>
                   /\ <<"resume_", d>> \in DOMAIN pinecone_index
                      => pinecone_index[<<"resume_", d>>].metadata.resume_id = d
          /\ \A v \in DOMAIN pinecone_index :
                v = <<"resume_", pinecone_index[v].metadata.resume_id>>)
    /\ [][\A v \in DOMAIN pinecone_index' :
            (v \notin DOMAIN pinecone_index \/ pinecone_index'[v] # pinecone_index[v])
            => \E d \in DOMAIN task :
                  /\ task[d].pc = "upsert" /\ task'[d].pc = "persist"
                  /\ task[d].resume_id = d
                  /\ v = <<"resume_", d>>
                  /\ pinecone_index'[v].metadata.resume_id = d]_vars

\* C27 witness: two documents are PROCESSED, the vector of one is stored and
\* links back to it, the vector of the other was removed by a delete that
\* then failed to remove the record
C27_Witness ==
    \E d, f \in DOMAIN collection :
        /\ collection[d].status = PROCESSED /\ collection[f].status = PROCESSED
        /\ collection[d].vector_id = <<"resume_", d>>
        /\ <<"resume_", d>> \in DOMAIN pinecone_index
        /\ pinecone_index[<<"resume_", d>>].metadata.resume_id = d
        /\ <<"resume_", f>> \notin DOMAIN pinecone_index
        /\ deleting = [pc |-> "idle", response |-> 500]

(***************************************************************************)
(* C28: the chunk list of create_resume_embeddings (SpecCalls)             *)
(***************************************************************************)
\* where the k-th skill starts in ", ".join(skills)
RECURSIVE SkillStart(_, _)
SkillStart(skills, k) ==
    IF k = 1 THEN 1 ELSE SkillStart(skills, k - 1) + Len(skills[k - 1]) + 2

\* chunk is the first n characters of text
FirstChars(chunk, text, n) ==
    /\ Len(chunk) = IF Len(text) < n THEN Len(text) ELSE n
    /\ IsPrefix(chunk, text)

\* chunk is "Skills: " followed by the skills, in order, with ", " between
SkillsChunk(chunk, skills) ==
    /\ Len(chunk) = 8 + SkillStart(skills, Len(skills)) - 1
                      + Len(skills[Len(skills)])
    /\ SubSeq(chunk, 1, 8) = <<"S", "k", "i", "l", "l", "s", ":", " ">>
    /\ \A k \in 1..Len(skills) :
          /\ SubSeq(chunk, 8 + SkillStart(skills, k),
                    8 + SkillStart(skills, k) + Len(skills[k]) - 1) = skills[k]
          /\ k < Len(skills)
             => SubSeq(chunk, 8 + SkillStart(skills, k) + Len(skills[k]),
                       9 + SkillStart(skills, k) + Len(skills[k])) = <<",", " ">>

\* C28: the chunk list of create_resume_embeddings is, in this order, the
\* first 1000 characters of the text, then "Skills: " followed by the
\* comma-joined skills if and only if there are skills, then the first 500
\* characters of each of the first min(3, n) of the n experience
\* descriptions; it has between 1 and 5 entries.
C28_ChunkList ==
    (fb.pc = "returned" /\ fb.method = "create_resume_embeddings")
    => LET chunks == fb.result.chunks
           s == IF fb.skills # <<>> THEN 1 ELSE 0
           m == IF Len(fb.experience) < 3 THEN Len(fb.experience) ELSE 3
       IN  /\ Len(chunks) = 1 + s + m
           /\ Len(chunks) \in 1..5
           /\ FirstChars(chunks[1], fb.resume_text, 1000)
           /\ s = 1 => SkillsChunk(chunks[2], fb.skills)
           /\ \A k \in 1..m : FirstChars(chunks[1 + s + k], fb.experience[k], 500)

\* C28 witness: a text of more than 1000 characters, two skills and four
\* descriptions, the third longer than 500 characters, gave five chunks
C28_Witness ==
    /\ fb.pc = "returned" /\ fb.method = "create_resume_embeddings"
    /\ Len(fb.resume_text) > 1000
    /\ Len(fb.skills) = 2
    /\ Len(fb.experience) = 4 /\ Len(fb.experience[3]) > 500
    /\ Len(fb.result.chunks) = 5
    /\ Len(fb.result.chunks[1]) = 1000
    /\ Len(fb.result.chunks[5]) = 500

(***************************************************************************)
(* C30: searches are read-only (SpecSearch)                                *)
(***************************************************************************)
\* C30: a search request is read-only.  Every step of a search, whatever
\* its inputs and its outcome, leaves every document, every vector, every
\* uploaded file, every unit of work and the delete in progress as they
\* were; so the searches interleaved with ingestion and deletes change
\* nothing of what these do.
C30_SearchReadOnly ==
    [][search' # search
       => UNCHANGED <<collection, pinecone_index, uploads, task, created,
                      deleting>>]_vars

\* C30 witness: a search has answered with one match while a unit of work
\* is in its except block, a document has been deleted and another delete
\* is in progress
C30_Witness ==
    /\ search.pc = "done" /\ search.response.status_code = 200
    /\ search.response.total_matches = 1
    /\ \E d \in DOMAIN task : task[d].pc = "fail_cleanup"
    /\ DOMAIN collection # DocIds
    /\ deleting.pc = "found"

(***************************************************************************)
(* C31..C36: uploads, results, deletes and the index (Spec)                *)
(***************************************************************************)
\* C31 (as stated): a unit of work never starts for a document id that has
\* no record.
C31_StartsOnlyWithRecord ==
    [][\A d \in DOMAIN task :
          (task[d].pc = "queued" /\ task'[d].pc # "queued")
          => d \in DOMAIN collection]_vars

\* C31 (amended): the upload handler creates the record with status
\* PROCESSING before it queues the unit of work, and queues it with that
\* record's id: a task is queued only by the step that creates the record
\* of its id, every record is created PROCESSING, and a unit of work starts
\* without a record only when a delete has removed it in between (records
\* are removed only by a delete).
C31_RecordCreatedBeforeQueued ==
    /\ [](\A d \in DOMAIN task : task[d].resume_id = d /\ d \in 1..created)
    /\ [][/\ \A d \in DOMAIN task' \ DOMAIN task :
                /\ d \notin DOMAIN collection
                /\ d \in DOMAIN collection'
                /\ task'[d].pc = "queued"
                /\ task'[d].resume_id = d
          /\ \A d \in DOMAIN collection' \ DOMAIN collection :
                collection'[d].status = PROCESSING
          /\ \A d \in DOMAIN collection \ DOMAIN collection' :
                /\ deleting.pc = "found" /\ deleting.resume_id = d
                /\ deleting'.pc = "idle"]_vars

\* C31 witness: a unit of work has started for a document that was deleted
\* while the task was queued, next to one whose record is there
C31_Witness ==
    \E d, f \in DOMAIN task :
        /\ task[d].pc = "extract_text" /\ d \notin DOMAIN collection
        /\ task[f].pc = "extract_text" /\ f \in DOMAIN collection
        /\ collection[f].status = PROCESSING

\* C32: a file that a unit of work removed between the listing and its
\* inspection by the cleanup task (os.path.getctime fails on it) does not
\* make the run fail or skip the remaining files: the run does not raise
\* and leaves no PDF file that is older than the retention and removable.
C32_SweepSurvivesVanishedFile ==
    fb.pc = "returned"
    => /\ ~fb.result.raised
       /\ \A f \in uploads :
             ~(f.pdf /\ f.stat_ok /\ f.age > Retention /\ f.remove_ok)

\* C33: when the delete of an existing document answers with success, the
\* record and the vector of that document are gone from their stores.
C33_DeleteRemovesBoth ==
    [][(/\ deleting.pc = "found"
        /\ deleting'.pc = "idle" /\ deleting'.response = 200)
       => /\ deleting.resume_id \notin DOMAIN collection'
          /\ <<"resume_", deleting.resume_id>> \notin DOMAIN pinecone_index']_vars

\* C34: the unit of work returns a success result if and only if the update
\* to PROCESSED was acknowledged by the document store.  The step that ends
\* a unit gives the success result exactly when the unit comes from an
\* acknowledged update (which was applied to the stored document), and in
\* every other case raises the exception the except block caught, which is
\* the one the failing stage raised: neither the FAILED update nor the
\* removal of the file, failing or not, changes it.
C34_SuccessIffAcknowledged ==
    [][\A d \in DOMAIN task :
          /\ Ends(d)
             => /\ task'[d].result.status = "success"
                   <=> (task[d].pc = "cleanup" /\ task[d].db_success)
                /\ task'[d].result.status # "success"
                   => /\ task[d].pc = "fail_cleanup"
                      /\ task'[d].result = [status |-> "failure", exc |-> task[d].e]
          /\ (task[d].pc = "persist" /\ task'[d].pc = "cleanup")
             => /\ d \in DOMAIN collection /\ collection[d].status # PROCESSED
                /\ collection'[d].status = PROCESSED
          /\ (task[d].pc = "persist" /\ task'[d].pc = "fail_write")
             => collection' = collection
          /\ (task[d].pc = "fail_write" /\ task'[d] # task[d])
             => /\ task'[d].pc = "fail_cleanup"
                /\ task'[d].e = task[d].e]_vars

\* C34 witness: one unit returned success; another raised the error of its
\* failed upsert although its FAILED update raised and its file could not
\* be removed
C34_Witness ==
    \E d, f \in DOMAIN task :
        /\ task[d].pc = "done" /\ task[d].result.status = "success"
        /\ task[f].pc = "done"
        /\ task[f].result = [status |-> "failure",
                              exc |-> "Failed to store vector in database"]
        /\ {"Failed to update resume status", "Failed to clean up PDF file"}
              \subseteq task[f].log

\* C35: after any sequence of uploads, units of work and deletes, when every
\* unit has ended and no delete is in progress, every vector of the index
\* belongs to a stored document that is PROCESSED and whose vector_id is
\* the vector's id: the index holds no orphan vectors.
C35_NoOrphanVectors ==
    (/\ \A d \in DOMAIN task : task[d].pc = "done"
     /\ deleting.pc = "idle")
    => \A v \in DOMAIN pinecone_index :
          \E d \in DOMAIN collection :
              /\ collection[d].status = PROCESSED
              /\ collection[d].vector_id = v

\* C35 (amended): every vector of the index was written by the unit of work
\* of the document its metadata names, under "resume_" + that id, after the
\* upsert reported success; and it belongs to a stored PROCESSED document
\* with that vector_id whenever that unit returned success and the document
\* is still stored.  Vectors of units whose update to PROCESSED failed and
\* of deleted documents stay in the index.
C35_VectorsComeFromUnits ==
    \A v \in DOMAIN pinecone_index :
        LET d == pinecone_index[v].metadata.resume_id
        IN  /\ v = <<"resume_", d>>
            /\ d \in DOMAIN task
            /\ "Added vector to Pinecone" \in task[d].log
            /\ IsPrefix(<<0, 1, 2>>, task[d].published)
            /\ (/\ task[d].pc = "done" /\ task[d].result.status = "success"
                /\ d \in DOMAIN collection)
               => /\ collection[d].status = PROCESSED
                  /\ collection[d].vector_id = v

\* C35 witness: every unit has ended and no delete is in progress; the
\* vector of one document belongs to it, the vector of another is an orphan
\* because the update to PROCESSED failed and the document is FAILED
C35_Witness ==
    /\ \A d \in DOMAIN task : task[d].pc = "done"
    /\ deleting.pc = "idle"
    /\ \E d, f \in DOMAIN collection :
          /\ collection[d].status = PROCESSED
          /\ collection[d].vector_id \in DOMAIN pinecone_index
          /\ collection[f].status = FAILED
          /\ <<"resume_", f>> \in DOMAIN pinecone_index

\* C36: a document deleted while its unit of work is in flight is never
\* created again.  The delete that answers with success removes the record,
\* and an id that was handed out and has no record never gets one: the
\* updates to PROCESSED and to FAILED only modify a stored record.
C36_DeletedStaysAbsent ==
    [][/\ (/\ deleting.pc = "found"
           /\ deleting'.pc = "idle" /\ deleting'.response = 200)
          => deleting.resume_id \notin DOMAIN collection'
       /\ \A d \in 1..created :
             d \notin DOMAIN collection => d \notin DOMAIN collection']_vars

\* C36 witness: a document was deleted while its unit of work was in flight;
\* the unit then made its update to PROCESSED, which found no record, and
\* has ended, and the document is absent
C36_Witness ==
    \E d \in DOMAIN task :
        /\ d \notin DOMAIN collection
        /\ deleting = [pc |-> "idle", response |-> 200]
        /\ task[d].pc = "done"
        /\ task[d].result = [status |-> "failure",
                              exc |-> "Failed to update resume in database"]

(***************************************************************************)
(* C37, C38: size and failures of a search (SpecSearch)                    *)
(***************************************************************************)
\* C37: a search returns at most top_k matches and total_matches is the
\* number of matches returned.  The index answers with at most top_k hits,
\* the route keeps at most one match per hit it has looked at, and the
\* response holds the kept matches, all of them, and their number.
C37_AtMostTopK ==
    /\ [](/\ search.pc = "fetch"
             => /\ Len(search.vector_matches) <= search.top_k
                /\ Len(search.resume_matches) <= search.i - 1
                /\ search.i - 1 <= Len(search.vector_matches)
          /\ (search.pc = "done" /\ search.response.status_code = 200)
             => search.response.total_matches = Len(search.response.matches))
    /\ [][(/\ search.pc = "fetch" /\ search'.pc = "done"
           /\ search'.response.status_code = 200)
          => /\ Len(search'.response.matches) <= search.top_k
             /\ Len(search'.response.matches) = Len(search.resume_matches)]_vars

\* C37 witness: the index holds more vectors than the one match returned,
\* and their documents are all PROCESSED
C37_Witness ==
    /\ search.pc = "done" /\ search.response.status_code = 200
    /\ search.response.total_matches = 1
    /\ Len(search.response.matches) = 1
    /\ Cardinality(DOMAIN pinecone_index) = MaxUploads
    /\ \A d \in DocIds : d \in DOMAIN collection /\ collection[d].status = PROCESSED

\* C38: a failure of the query of the index gives a successful response
\* with no match: the request goes on with no hit, and unless it fails
\* otherwise it answers 200 with the empty list.  A failure of the embedding
\* of the job description or of the fetch of one document gives the answer
\* 500, which carries no list of matches, also when matches had been kept
\* before the fetch that failed.
C38_SearchFailures ==
    /\ [](search.pc # "idle"
          => /\ "Failed to search Pinecone" \in search.log
                => /\ search.pc = "fetch"
                      => /\ search.vector_matches = <<>>
                         /\ search.resume_matches = <<>>
                   /\ search.pc = "done"
                      => search.response = [status_code |-> 200, matches |-> <<>>,
                                            total_matches |-> 0]
             /\ search.log \cap {"Failed to create job embedding",
                                 "Failed to get resume"} # {}
                => /\ search.pc = "done"
                   /\ search.response = [status_code |-> 500]
             /\ (search.pc = "done" /\ search.response.status_code # 200)
                => search.response = [status_code |-> 500])
    /\ [][(search.pc = "fetch" /\ "Failed to search Pinecone" \in search.log
           /\ search' # search)
          => search'.pc = "done" /\ search'.response.status_code = 200]_vars

\* C38 witness: every document is PROCESSED and has its vector stored; the
\* fetch of a hit failed and the search answered 500 without a list
C38_Witness ==
    /\ search.pc = "done" /\ search.response = [status_code |-> 500]
    /\ "Failed to get resume" \in search.log
    /\ \A d \in DocIds : d \in DOMAIN collection /\ collection[d].status = PROCESSED
    /\ Cardinality(DOMAIN pinecone_index) = MaxUploads

(***************************************************************************)
(* C39: the connection state of the document-store service (SpecService)   *)
(***************************************************************************)
\* C39: after any sequence of connect and disconnect calls, is_connected()
\* is true only if the client and the database handle are both there; the
\* flag is set only when both are, and both are there or neither.  A
\* connect that raised leaves the service reset (not connected, no client,
\* no database), a connect on a connected service changes nothing, and a
\* disconnect leaves the service not connected.
C39_ConnectionState ==
    /\ [](fb.pc = "service"
          => /\ is_connected(fb) => fb.client # PyNone /\ fb.database # PyNone
             /\ fb.connected => fb.client # PyNone
             /\ fb.client = PyNone <=> fb.database = PyNone
             /\ (fb.calls # <<>> /\ fb.calls[Len(fb.calls)] = "connect raised")
                => /\ ~fb.connected
                   /\ fb.client = PyNone /\ fb.database = PyNone
             /\ (fb.calls # <<>> /\ fb.calls[Len(fb.calls)] = "disconnect")
                => /\ ~is_connected(fb) /\ ~fb.connected
                   /\ fb.client = PyNone /\ fb.database = PyNone
             /\ (fb.calls # <<>> /\ fb.calls[Len(fb.calls)] = "connect")
                => is_connected(fb))
    /\ [][(fb.pc = "service" /\ fb'.pc = "service" /\ is_connected(fb)
           /\ fb'.calls = Append(fb.calls, "connect, already connected"))
          => /\ fb'.connected = fb.connected
             /\ fb'.client = fb.client
             /\ fb'.database = fb.database]_vars

\* C39 witness: the service connected, was asked to connect again, was
\* disconnected, and then failed to connect
C39_Witness ==
    /\ fb.pc = "service"
    /\ fb.calls = <<"connect", "connect, already connected", "disconnect",
                    "connect raised">>
    /\ ~is_connected(fb)

====
